---- MODULE Spec2Model ----
(***************************************************************************)
(* JianpuRender: the JianpuModel build (update -> MeasuresInfo ->          *)
(* infoToBlocks), the JianpuBlock operations it drives, and the pitch      *)
(* mapper mapMidiToJianpu.                                                 *)
(*                                                                         *)
(* Numbers.  The sources compute with IEEE doubles.  Here every quantity   *)
(* in quarters (and every measure number) is a fixed-point integer with    *)
(* One units to 1.0.  One = 48,000,000 makes 1e-6 exactly Eps = 48 units   *)
(* and keeps every time on the 1/16-quarter grid, and every measure        *)
(* number of a 2-, 3-, 4- or 6-quarter measure, exact.  The 1e-9 that      *)
(* measureNumberAtQ adds is below one unit; it is kept as Nano = 1 unit,   *)
(* the smallest representable amount, so that the drift it causes          *)
(* (measureLength * 1e-9 quarters) stays strictly between 0 and 1e-6 as    *)
(* in the doubles.                                                         *)
(***************************************************************************)
EXTENDS Integers, Sequences, FiniteSets, TLC

(***************************************************************************)
(* Fixed-point arithmetic                                                  *)
(***************************************************************************)
One == 16 * 3000000

\* model_constants.ts: MIN_RESOLUTION = 0.0625
MIN_RESOLUTION == 3000000

\* the literal 1e-6 used throughout jianpu_block.ts and jianpu_model.ts
Eps == 48

\* the literal 1e-9 of MeasuresInfo.measureNumberAtQ
Nano == 1

\* JS `undefined` in a numeric optional field
Undefined == 0 - 1

Abs(x) == IF x < 0 THEN 0 - x ELSE x

Min(a, b) == IF a < b THEN a ELSE b

Max(a, b) == IF a > b THEN a ELSE b

RECURSIVE Gcd(_, _)
Gcd(a, b) == IF b = 0 THEN a ELSE Gcd(b, a % b)

\* round-to-nearest quotient n / d of integers, d > 0
RoundDiv(n, d) == (2 * n + d) \div (2 * d)

\* a / b for fixed-point a, b (b > 0)
FDiv(a, b) == LET g == Gcd(One, b) IN RoundDiv(a * (One \div g), b \div g)

\* a * b for fixed-point a, b (b > 0)
FMul(a, b) == LET g == Gcd(One, b) IN RoundDiv(a * (b \div g), One \div g)

\* Math.floor of a fixed-point number, as an integer
Floor(x) == x \div One

\* Math.round of a fixed-point number, as an integer (JS rounds half up)
Round(x) == (2 * x + One) \div (2 * One)

\* isSafeZero(n): Math.abs(n) < 1e-6
isSafeZero(n) == Abs(n) < Eps

(***************************************************************************)
(* Pitch mapper                                                            *)
(***************************************************************************)
MIDDLE_C_MIDI == 60

\* JS remainder: the sign follows the dividend
JsRem(a, b) == IF a >= 0 THEN a % b ELSE 0 - ((0 - a) % b)

\* a variant table, the natural minor scale, to compare the major one against
MinorScaleIntervals(i) ==
  CASE i = 0 -> 1
    [] i = 2 -> 2
    [] i = 3 -> 3
    [] i = 5 -> 4
    [] i = 7 -> 5
    [] i = 8 -> 6
    [] i = 10 -> 7
    [] OTHER -> 0 - 1

\* MAJOR_SCALE_INTERVALS[interval]; a missing key reads as undefined
MAJOR_SCALE_INTERVALS(i) ==
  CASE i = 0 -> 1
    [] i = 2 -> 2
    [] i = 4 -> 3
    [] i = 5 -> 4
    [] i = 7 -> 5
    [] i = 9 -> 6
    [] i = 11 -> 7
    [] OTHER -> Undefined

\* the tonic in the octave drawn without dots
TonicMidiRef(key) ==
  LET keyPitchClass == JsRem(key, 12)
      ref == MIDDLE_C_MIDI + keyPitchClass
  IN IF keyPitchClass > JsRem(MIDDLE_C_MIDI, 12) THEN ref - 12 ELSE ref

\* a variant that measures the interval from the reference tonic itself,
\* without moving the tonic to the octave nearest the pitch
MidiIntervalFromReference(midiPitch, key) ==
  JsRem(midiPitch - TonicMidiRef(key), 12)

\* the semitone interval from the octave-adjusted tonic to the pitch
MidiInterval(midiPitch, key) ==
  LET tonicMidiRef == TonicMidiRef(key)
      octaveOffsetForIntervalCalc == RoundDiv(midiPitch - tonicMidiRef, 12)
      tonicMidi == tonicMidiRef + octaveOffsetForIntervalCalc * 12
  IN JsRem(midiPitch - tonicMidi + 12, 12)

\* a variant of the switch that spells every chromatic interval as the sharp
\* of the degree below it
SharpSpelling(interval) ==
  [jianpuNumber |-> MAJOR_SCALE_INTERVALS(JsRem(interval - 1 + 12, 12)),
   accidental |-> 1, fallback |-> FALSE]

\* the switch on a chromatic interval, with its default branch
ChromaticSpelling(interval) ==
  CASE interval = 1 -> [jianpuNumber |-> MAJOR_SCALE_INTERVALS(0), accidental |-> 1, fallback |-> FALSE]
    [] interval = 3 -> [jianpuNumber |-> MAJOR_SCALE_INTERVALS(4), accidental |-> 2, fallback |-> FALSE]
    [] interval = 6 -> [jianpuNumber |-> MAJOR_SCALE_INTERVALS(5), accidental |-> 1, fallback |-> FALSE]
    [] interval = 8 -> [jianpuNumber |-> MAJOR_SCALE_INTERVALS(9), accidental |-> 2, fallback |-> FALSE]
    [] interval = 10 -> [jianpuNumber |-> MAJOR_SCALE_INTERVALS(11), accidental |-> 2, fallback |-> FALSE]
    [] OTHER ->
         LET lowerDegreeFallback == MAJOR_SCALE_INTERVALS(JsRem(interval - 1 + 12, 12))
             upperDegreeFallback == MAJOR_SCALE_INTERVALS(JsRem(interval + 1 + 12, 12))
         IN IF lowerDegreeFallback # Undefined
              THEN [jianpuNumber |-> lowerDegreeFallback, accidental |-> 1, fallback |-> FALSE]
              ELSE IF upperDegreeFallback # Undefined
                THEN [jianpuNumber |-> upperDegreeFallback, accidental |-> 2, fallback |-> FALSE]
                ELSE [jianpuNumber |-> 1, accidental |-> 1, fallback |-> TRUE]

\* mapMidiToJianpu(midiPitch, key); `fallback` records that the {1, sharp}
\* default was taken (the code logs console.error there)
mapMidiToJianpu(midiPitch, key) ==
  LET tonicMidiRef == TonicMidiRef(key)
      interval == MidiInterval(midiPitch, key)
      diatonic == MAJOR_SCALE_INTERVALS(interval)
      chromatic == ChromaticSpelling(interval)
      spelled == IF diatonic # Undefined
                   THEN [jianpuNumber |-> diatonic, accidental |-> 0, fallback |-> FALSE]
                   ELSE IF chromatic.jianpuNumber = Undefined
                     THEN [jianpuNumber |-> 1, accidental |-> 1, fallback |-> TRUE]
                     ELSE chromatic
  IN [jianpuNumber |-> spelled.jianpuNumber,
      octaveDot |-> (midiPitch - tonicMidiRef) \div 12,
      accidental |-> spelled.accidental,
      fallback |-> spelled.fallback]

\* Body applied to a value that is computed once: a local that later
\* statements read several times
With(value, Body(_)) == CHOOSE out \in { Body(v) : v \in { value } } : TRUE

(***************************************************************************)
(* Score data (jianpu_info.ts)                                             *)
(***************************************************************************)
\* DEFAULT_TEMPO
DEFAULT_TEMPO == [start |-> 0, qpm |-> 60]

\* DEFAULT_KEY_SIGNATURE
DEFAULT_KEY_SIGNATURE == [start |-> 0, key |-> 0]

\* DEFAULT_TIME_SIGNATURE
DEFAULT_TIME_SIGNATURE == [start |-> 0, numerator |-> 4, denominator |-> 4]

\* getMeasureLength(timeSignature): numerator * (4 / denominator)
getMeasureLength(timeSignature) ==
  timeSignature.numerator * ((4 * One) \div timeSignature.denominator)

\* Array.prototype.sort((a, b) => a.start - b.start): a stable sort by start
RECURSIVE InsertByStart(_, _)
InsertByStart(sorted, x) ==
  IF sorted = <<>> THEN <<x>>
  ELSE IF sorted[Len(sorted)].start <= x.start THEN Append(sorted, x)
  ELSE Append(InsertByStart(SubSeq(sorted, 1, Len(sorted) - 1), x), sorted[Len(sorted)])

RECURSIVE SortByStart(_)
SortByStart(s) ==
  IF s = <<>> THEN <<>>
  ELSE InsertByStart(SortByStart(SubSeq(s, 1, Len(s) - 1)), s[Len(s)])

(***************************************************************************)
(* MeasuresInfo (measure_info.ts)                                          *)
(***************************************************************************)
\* MeasuresInfo.allowDottedRests: the field's initializer
allowDottedRests == TRUE

\* Math.round(x * 1000) / 1000
RoundMilli(x) == RoundDiv(x, One \div 1000) * (One \div 1000)

\* one iteration of the constructor's for loop at time `quarters`; st holds the
\* loop-carried locals, the result the chunk pushed and the locals afterwards
MeasureChunk(info, quarters, st) ==
  LET timeSinceLastSigChange == quarters - st.timeOfLastTimeSigChange
      measuresPassedSinceSigChange == FDiv(timeSinceLastSigChange, st.currentMeasureLength)
      currentMeasureNumber == st.measureNumberAtCurrentTimeSignature + measuresPassedSinceSigChange
      tempoHit == /\ st.tempoIndex <= Len(info.tempos)
                  /\ Abs(info.tempos[st.tempoIndex].start - quarters) < MIN_RESOLUTION \div 2
      keyHit == /\ st.keyIndex <= Len(info.keySignatures)
                /\ Abs(info.keySignatures[st.keyIndex].start - quarters) < MIN_RESOLUTION \div 2
      timeHit == /\ st.timeIndex <= Len(info.timeSignatures)
                 /\ Abs(info.timeSignatures[st.timeIndex].start - quarters) < MIN_RESOLUTION \div 2
      currentTempo == IF tempoHit THEN info.tempos[st.tempoIndex] ELSE st.currentTempo
      currentKeySignature == IF keyHit THEN info.keySignatures[st.keyIndex] ELSE st.currentKeySignature
      currentTimeSignature == IF timeHit THEN info.timeSignatures[st.timeIndex] ELSE st.currentTimeSignature
      timeAtChange == info.timeSignatures[st.timeIndex].start
      timeSincePrevSigChange == timeAtChange - st.timeOfLastTimeSigChange
      rebased == RoundMilli(st.measureNumberAtCurrentTimeSignature
                            + FDiv(timeSincePrevSigChange, st.currentMeasureLength))
      measureNumberAtCurrentTimeSignature ==
        IF timeHit THEN rebased ELSE st.measureNumberAtCurrentTimeSignature
      currentMeasureLength ==
        IF timeHit THEN getMeasureLength(currentTimeSignature) ELSE st.currentMeasureLength
  IN [chunk |-> [start |-> quarters,
                 measureNumber |-> IF timeHit THEN rebased ELSE currentMeasureNumber,
                 measureLength |-> currentMeasureLength,
                 tempo |-> currentTempo,
                 keySignature |-> currentKeySignature,
                 timeSignature |-> currentTimeSignature,
                 tempoChange |-> tempoHit,
                 keyChange |-> keyHit,
                 timeChange |-> timeHit],
      st |-> [tempoIndex |-> IF tempoHit THEN st.tempoIndex + 1 ELSE st.tempoIndex,
              keyIndex |-> IF keyHit THEN st.keyIndex + 1 ELSE st.keyIndex,
              timeIndex |-> IF timeHit THEN st.timeIndex + 1 ELSE st.timeIndex,
              currentTempo |-> currentTempo,
              currentKeySignature |-> currentKeySignature,
              currentTimeSignature |-> currentTimeSignature,
              measureNumberAtCurrentTimeSignature |-> measureNumberAtCurrentTimeSignature,
              currentMeasureLength |-> currentMeasureLength,
              timeOfLastTimeSigChange |-> IF timeHit THEN quarters ELSE st.timeOfLastTimeSigChange]]

\* the turns first..last of the constructor's for loop (turn k is at time
\* k * MIN_RESOLUTION), entered with the loop-carried locals st: the chunks
\* pushed and the locals afterwards.  The turns run in order, the second half
\* from the locals the first half leaves; halving keeps the evaluation shallow.
RECURSIVE MeasureChunks(_, _, _, _)
MeasureChunks(info, st, first, last) ==
  IF first = last
    THEN With(MeasureChunk(info, first * MIN_RESOLUTION, st),
              LAMBDA r : [st |-> r.st, chunks |-> << r.chunk >>])
    ELSE With(MeasureChunks(info, st, first, (first + last) \div 2),
              LAMBDA left :
                With(MeasureChunks(info, left.st, (first + last) \div 2 + 1, last),
                     LAMBDA right : [st |-> right.st,
                                     chunks |-> left.chunks \o right.chunks]))

\* new MeasuresInfo(jianpuInfo, lastQ): the chunk array, one chunk for every
\* multiple of MIN_RESOLUTION below lastQ
NewMeasuresInfo(info, lastQ) ==
  IF lastQ <= 0 THEN <<>>
  ELSE MeasureChunks(info,
                     [tempoIndex |-> 1, keyIndex |-> 1, timeIndex |-> 1,
                      currentTempo |-> info.tempos[1],
                      currentKeySignature |-> info.keySignatures[1],
                      currentTimeSignature |-> info.timeSignatures[1],
                      measureNumberAtCurrentTimeSignature |-> One,
                      currentMeasureLength |-> getMeasureLength(info.timeSignatures[1]),
                      timeOfLastTimeSigChange |-> info.timeSignatures[1].start],
                     0, (lastQ - 1) \div MIN_RESOLUTION).chunks

\* findIndex(start), as a 1-based index into the chunk sequence
findIndex(mi, start) ==
  1 + Max(0, Min(Len(mi) - 1, start \div MIN_RESOLUTION))

\* measureNumberAtQ(start)
measureNumberAtQ(mi, start) ==
  IF Len(mi) = 0 THEN One
  ELSE LET reference == mi[findIndex(mi, start)]
           quartersAdvance == start - reference.start
           measureAdvanceSinceReference == FDiv(quartersAdvance, reference.measureLength)
       IN reference.measureNumber + measureAdvanceSinceReference + Nano

\* measureLengthAtQ(start)
measureLengthAtQ(mi, start) ==
  IF Len(mi) = 0 THEN getMeasureLength(DEFAULT_TIME_SIGNATURE)
  ELSE mi[findIndex(mi, start)].measureLength

\* keySignatureAtQ(start), onlyChanges = false
keySignatureAtQ(mi, start) ==
  IF Len(mi) = 0 THEN DEFAULT_KEY_SIGNATURE.key
  ELSE mi[findIndex(mi, start)].keySignature.key

\* timeSignatureAtQ(start), onlyChanges = false
timeSignatureAtQ(mi, start) ==
  IF Len(mi) = 0 THEN DEFAULT_TIME_SIGNATURE
  ELSE mi[findIndex(mi, start)].timeSignature

\* tempoAtQ(start, onlyChanges)
tempoAtQ(mi, start, onlyChanges) ==
  IF Len(mi) = 0 THEN DEFAULT_TEMPO.qpm
  ELSE LET measureInfo == mi[findIndex(mi, start)]
           isExactStart == Abs(measureInfo.start - start) < MIN_RESOLUTION \div 2
       IN IF ~onlyChanges \/ (measureInfo.tempoChange /\ isExactStart)
            THEN measureInfo.tempo.qpm ELSE Undefined

\* keySignatureAtQ(start, true)
keySignatureAtQOnlyChanges(mi, start) ==
  IF Len(mi) = 0 THEN DEFAULT_KEY_SIGNATURE.key
  ELSE LET measureInfo == mi[findIndex(mi, start)]
           isExactStart == Abs(measureInfo.start - start) < MIN_RESOLUTION \div 2
       IN IF measureInfo.keyChange /\ isExactStart
            THEN measureInfo.keySignature.key ELSE Undefined

\* the null a query returns for no time signature
Null == [start |-> Undefined, numerator |-> Undefined, denominator |-> Undefined]

\* timeSignatureAtQ(start, true)
timeSignatureAtQOnlyChanges(mi, start) ==
  IF Len(mi) = 0 THEN DEFAULT_TIME_SIGNATURE
  ELSE LET measureInfo == mi[findIndex(mi, start)]
           isExactStart == Abs(measureInfo.start - start) < MIN_RESOLUTION \div 2
       IN IF measureInfo.timeChange /\ isExactStart
            THEN measureInfo.timeSignature ELSE Null

(***************************************************************************)
(* JianpuNote and JianpuBlock (jianpu_block.ts)                            *)
(*                                                                         *)
(* Notes live in an arena (a sequence); a reference to a note is its index *)
(* and the absent reference (tiedFrom/tiedTo undefined) is 0.  src is the  *)
(* index of the input note the JianpuNote was created or split from.       *)
(* An optional boolean is "true", "false" or "undefined".                  *)
(***************************************************************************)
Bool(b) == IF b THEN "true" ELSE "false"

Truthy(x) == x = "true"

\* a variant of splitJianpuNote that cuts the note without tying the halves
splitJianpuNoteUntied(arena, id, quarters) ==
  LET jianpuNote == arena[id]
      originalEnd == jianpuNote.start + jianpuNote.length
  IN IF \/ quarters <= jianpuNote.start
        \/ quarters >= originalEnd
        \/ isSafeZero(originalEnd - quarters)
       THEN [arena |-> arena, splitted |-> 0]
       ELSE [arena |-> Append([arena EXCEPT ![id].length = quarters - jianpuNote.start],
                              [jianpuNote EXCEPT !.start = quarters,
                                                 !.length = originalEnd - quarters,
                                                 !.accidental = 0]),
             splitted |-> Len(arena) + 1]

\* a variant of splitJianpuNote without the test for a split point within
\* 1e-6 of the end
splitJianpuNoteToEnd(arena, id, quarters) ==
  LET jianpuNote == arena[id]
      originalEnd == jianpuNote.start + jianpuNote.length
  IN IF quarters <= jianpuNote.start \/ quarters >= originalEnd
       THEN [arena |-> arena, splitted |-> 0]
       ELSE [arena |-> Append([arena EXCEPT ![id].length = quarters - jianpuNote.start,
                                            ![id].tiedTo = Len(arena) + 1],
                              [jianpuNote EXCEPT !.start = quarters,
                                                 !.length = originalEnd - quarters,
                                                 !.accidental = 0,
                                                 !.tiedFrom = id]),
             splitted |-> Len(arena) + 1]

\* splitJianpuNote(jianpuNote, quarters): the arena afterwards and the
\* reference to the second half (0 for null)
splitJianpuNote(arena, id, quarters) ==
  LET jianpuNote == arena[id]
      originalEnd == jianpuNote.start + jianpuNote.length
  IN IF \/ quarters <= jianpuNote.start
        \/ quarters >= originalEnd
        \/ isSafeZero(originalEnd - quarters)
       THEN [arena |-> arena, splitted |-> 0]
       ELSE LET remainLength == originalEnd - quarters
                new == Len(arena) + 1
                splitted == [start |-> quarters,
                             length |-> remainLength,
                             pitch |-> jianpuNote.pitch,
                             jianpuNumber |-> jianpuNote.jianpuNumber,
                             octaveDot |-> jianpuNote.octaveDot,
                             accidental |-> 0,
                             tiedFrom |-> id,
                             tiedTo |-> jianpuNote.tiedTo,
                             src |-> jianpuNote.src]
                relinked == IF jianpuNote.tiedTo # 0
                              THEN [arena EXCEPT ![jianpuNote.tiedTo].tiedFrom = new]
                              ELSE arena
            IN [arena |-> Append([relinked EXCEPT ![id].length = quarters - jianpuNote.start,
                                                  ![id].tiedTo = new],
                                 splitted),
                splitted |-> new]

\* new JianpuBlock(start, length, notes, measureNumber)
NewJianpuBlock(start, length, notes, measureNumber) ==
  [start |-> start, length |-> length, notes |-> notes, measureNumber |-> measureNumber,
   durationLines |-> Undefined, augmentationDots |-> Undefined,
   augmentationDash |-> "undefined",
   beatBegin |-> "undefined", beatEnd |-> "undefined",
   isTieStart |-> "undefined", isTieEnd |-> "undefined"]

\* the minimum of note.length over the block's notes (the loop of addNote)
RECURSIVE MinLength(_, _)
MinLength(arena, notes) ==
  IF Len(notes) = 1 THEN arena[notes[1]].length
  ELSE Min(arena[notes[1]].length, MinLength(arena, Tail(notes)))

\* a variant of the duplicate search that finds none
NoSamePitch(arena, notes, pitch) == 0

\* index of the first note of the block with the pitch, 0 when there is none
FirstSamePitch(arena, notes, pitch) ==
  IF \E i \in 1..Len(notes) : arena[notes[i]].pitch = pitch
    THEN CHOOSE i \in 1..Len(notes) :
           /\ arena[notes[i]].pitch = pitch
           /\ \A j \in 1..(i - 1) : arena[notes[j]].pitch # pitch
    ELSE 0

\* JianpuBlock.addNote(jianpuNote): the block and arena afterwards, and the
\* boolean returned
addNote(arena, block, id) ==
  LET jianpuNote == arena[id]
  IN IF Len(block.notes) = 0
       THEN [arena |-> arena,
             block |-> [block EXCEPT !.start = jianpuNote.start,
                                     !.length = jianpuNote.length,
                                     !.notes = <<id>>],
             ret |-> TRUE]
     ELSE IF ~isSafeZero(block.start - jianpuNote.start)
       THEN [arena |-> arena, block |-> block, ret |-> FALSE]
     ELSE LET i == FirstSamePitch(arena, block.notes, jianpuNote.pitch)
              isDuplicate == i # 0
              old == arena[block.notes[i]]
              replacedDuplicate == isDuplicate /\ jianpuNote.length < old.length
              a1 == IF old.tiedFrom # 0
                      THEN [arena EXCEPT ![id].tiedFrom = old.tiedFrom,
                                         ![old.tiedFrom].tiedTo = id]
                      ELSE arena
              a2 == IF old.tiedTo # 0
                      THEN [a1 EXCEPT ![id].tiedTo = old.tiedTo,
                                      ![old.tiedTo].tiedFrom = id]
                      ELSE a1
              arenaAfter == IF replacedDuplicate THEN a2 ELSE arena
              notesAfter == IF replacedDuplicate THEN [block.notes EXCEPT ![i] = id]
                            ELSE IF ~isDuplicate THEN Append(block.notes, id)
                            ELSE block.notes
          IN [arena |-> arenaAfter,
              block |-> [block EXCEPT !.notes = notesAfter,
                                      !.length = MinLength(arenaAfter, notesAfter)],
              ret |-> (~isDuplicate) \/ replacedDuplicate]

\* block.addNote(note) for each note of a list, in order
RECURSIVE addNotes(_, _, _)
addNotes(arena, block, ids) ==
  IF ids = <<>> THEN [arena |-> arena, block |-> block]
  ELSE With(addNote(arena, block, Head(ids)),
            LAMBDA r : addNotes(r.arena, r.block, Tail(ids)))

\* the loop of JianpuBlock.split over this.notes: every note that crosses the
\* split point is split and its second half collected
RECURSIVE SplitNotes(_, _, _, _)
SplitNotes(arena, notes, quarters, notesForNewBlock) ==
  IF notes = <<>> THEN [arena |-> arena, notesForNewBlock |-> notesForNewBlock]
  ELSE LET note == arena[Head(notes)]
           noteEnd == note.start + note.length
       IN IF noteEnd > quarters + Eps
            THEN With(splitJianpuNote(arena, Head(notes), quarters),
                      LAMBDA r :
                        SplitNotes(r.arena, Tail(notes), quarters,
                                   IF r.splitted # 0 THEN Append(notesForNewBlock, r.splitted)
                                   ELSE notesForNewBlock))
            ELSE SplitNotes(arena, Tail(notes), quarters, notesForNewBlock)

\* JianpuBlock.split(quarters, measuresInfo): arena and this block afterwards,
\* and the second part when splitted is TRUE (FALSE stands for null)
split(arena, block, quarters, mi) ==
  LET originalEnd == block.start + block.length
  IN IF \/ quarters <= block.start
        \/ quarters >= originalEnd
        \/ isSafeZero(originalEnd - quarters)
       THEN [arena |-> arena, block |-> block, splitted |-> FALSE, splittedBlock |-> block]
       ELSE LET remainLength == originalEnd - quarters
                newBlockLength == quarters - block.start
                fresh == NewJianpuBlock(quarters, remainLength, <<>>, measureNumberAtQ(mi, quarters))
                Splitted(added) ==
                  LET b1 == [added.block EXCEPT
                               !.beatEnd = IF Truthy(block.beatEnd) THEN "true" ELSE @]
                      b2 == [b1 EXCEPT
                               !.isTieStart = IF Truthy(block.isTieEnd) THEN "true" ELSE @]
                  IN [arena |-> added.arena,
                      block |-> [block EXCEPT
                                   !.length = newBlockLength,
                                   !.durationLines = Undefined,
                                   !.augmentationDots = Undefined,
                                   !.augmentationDash = "undefined",
                                   !.beatEnd = IF Truthy(block.beatEnd) THEN "undefined" ELSE @,
                                   !.isTieEnd = IF Truthy(block.isTieEnd) THEN "undefined" ELSE @],
                      splitted |-> TRUE,
                      splittedBlock |-> b2]
            IN With(SplitNotes(arena, block.notes, quarters, <<>>),
                    LAMBDA sn : With(addNotes(sn.arena, fresh, sn.notesForNewBlock), Splitted))

\* this.notes.some(n => n.tiedFrom)
SomeTiedFrom(arena, notes) == \E i \in 1..Len(notes) : arena[notes[i]].tiedFrom # 0

\* this.notes.some(n => n.tiedTo)
SomeTiedTo(arena, notes) == \E i \in 1..Len(notes) : arena[notes[i]].tiedTo # 0

\* a variant of the split point that looks at the measure end only, never at
\* the beats inside the measure
MeasureSplitTime(block, mi) ==
  LET measureLength == measureLengthAtQ(mi, block.start)
      measureNum == measureNumberAtQ(mi, block.start)
      measureStart == block.start - FMul(measureNum - Floor(measureNum) * One, measureLength)
      measureEndTime == measureStart + measureLength
  IN IF /\ measureEndTime < block.start + block.length - Eps
        /\ measureEndTime > block.start + Eps
       THEN measureEndTime
       ELSE Undefined

\* the split point splitToBeat chooses: the earliest of the next beat and the
\* measure end that falls inside the block; Undefined stands for null
BeatSplitTime(block, mi) ==
  LET timeSignature == timeSignatureAtQ(mi, block.start)
      measureLength == measureLengthAtQ(mi, block.start)
      measureNum == measureNumberAtQ(mi, block.start)
      measureStart == block.start - FMul(measureNum - Floor(measureNum) * One, measureLength)
      timeInMeasure == block.start - measureStart
      beatLength == (4 * One) \div timeSignature.denominator
      startBeatFraction == FDiv(timeInMeasure, beatLength)
      currentBeatNumber == Floor(startBeatFraction + Eps)
      nextBeatTimeInMeasure == (currentBeatNumber + 1) * beatLength
      nextBeatTimeAbsolute == measureStart + nextBeatTimeInMeasure
      measureEndTime == measureStart + measureLength
      blockEndTime == block.start + block.length
      beatTime == IF /\ nextBeatTimeAbsolute < blockEndTime - Eps
                     /\ nextBeatTimeAbsolute > block.start + Eps
                    THEN nextBeatTimeAbsolute ELSE Undefined
  IN IF /\ measureEndTime < blockEndTime - Eps
        /\ measureEndTime > block.start + Eps
        /\ (beatTime = Undefined \/ measureEndTime < beatTime)
       THEN measureEndTime
       ELSE beatTime

\* a variant of splitToBeat that cuts nothing and hands the whole block back
\* as the remainder
splitToBeatWhole(arena, block, mi) ==
  [arena |-> arena, block |-> block,
   splitted |-> BeatSplitTime(block, mi) # Undefined, splittedBlock |-> block]

\* JianpuBlock.splitToBeat(measuresInfo): arena and this block afterwards, and
\* the second part when splitted is TRUE
splitToBeat(arena, block, mi) ==
  LET timeSignature == timeSignatureAtQ(mi, block.start)
      measureLength == measureLengthAtQ(mi, block.start)
      measureNum == measureNumberAtQ(mi, block.start)
      measureStart == block.start - FMul(measureNum - Floor(measureNum) * One, measureLength)
      timeInMeasure == block.start - measureStart
      beatLength == (4 * One) \div timeSignature.denominator
      startBeatFraction == FDiv(timeInMeasure, beatLength)
      beatBegin == isSafeZero(startBeatFraction - Round(startBeatFraction) * One)
      measureEndTime == measureStart + measureLength
      blockEndTime == block.start + block.length
      endBeatFraction == FDiv(timeInMeasure + block.length, beatLength)
      endsOnBeat == \/ isSafeZero(endBeatFraction - Round(endBeatFraction) * One)
                    \/ isSafeZero(blockEndTime - measureEndTime)
      \* the statements after the split point is chosen and the block is split
      AfterSplit(splitTime, s) ==
        LET beatEnd == IF splitTime # Undefined
                         THEN (IF s.splitted THEN "true" ELSE s.block.beatEnd)
                         ELSE Bool(endsOnBeat)
            tieEndDeleted == /\ s.splitted
                             /\ \E i \in 1..Len(s.block.notes) :
                                  LET n == s.arena[s.block.notes[i]]
                                  IN n.tiedTo # 0 /\ n.start + n.length > splitTime
        IN [arena |-> s.arena,
            block |-> [s.block EXCEPT
                         !.beatEnd = beatEnd,
                         !.isTieStart = Bool(SomeTiedFrom(s.arena, s.block.notes)),
                         !.isTieEnd = IF tieEndDeleted THEN "undefined"
                                      ELSE Bool(SomeTiedTo(s.arena, s.block.notes))],
            splitted |-> s.splitted,
            splittedBlock |-> IF s.splitted
                                THEN [s.splittedBlock EXCEPT
                                        !.isTieStart = Bool(SomeTiedFrom(s.arena, s.splittedBlock.notes)),
                                        !.isTieEnd = Bool(SomeTiedTo(s.arena, s.splittedBlock.notes))]
                                ELSE s.splittedBlock]
  IN With(BeatSplitTime(block, mi),
          LAMBDA splitTime :
            With(IF splitTime # Undefined
                   THEN split(arena, [block EXCEPT !.beatBegin = Bool(beatBegin)],
                              splitTime, mi)
                   ELSE [arena |-> arena,
                         block |-> [block EXCEPT !.beatBegin = Bool(beatBegin)],
                         splitted |-> FALSE, splittedBlock |-> block],
                 LAMBDA s : AfterSplit(splitTime, s)))

\* a variant table that stops at the quarter note
CoarseLengths(block) == << 4 * One, 2 * One, One >>

\* the standardLengths table of splitToStandardSymbol, longest first
StandardLengths(block) ==
  IF allowDottedRests \/ Len(block.notes) > 0
    THEN << 6 * One, 4 * One, 3 * One, 2 * One, 3 * (One \div 2), One,
            3 * (One \div 4), One \div 2, 3 * (One \div 8), One \div 4,
            One \div 8, One \div 16 >>
    ELSE << 4 * One, 2 * One, One, One \div 2, One \div 4, One \div 8, One \div 16 >>

\* the first table entry with blockLength >= entry - 1e-6; 0 when there is none
RECURSIVE FirstFit(_, _)
FirstFit(standardLengths, blockLength) ==
  IF standardLengths = <<>> THEN 0
  ELSE IF blockLength >= Head(standardLengths) - Eps THEN Head(standardLengths)
  ELSE FirstFit(Tail(standardLengths), blockLength)

\* bestFitLength of splitToStandardSymbol
BestFitLength(block) ==
  LET fit == FirstFit(StandardLengths(block), block.length)
  IN IF isSafeZero(fit) THEN MIN_RESOLUTION ELSE fit

\* JianpuBlock.splitToStandardSymbol(measuresInfo)
splitToStandardSymbol(arena, block, mi) ==
  LET blockLength == block.length
      bestFitLength == BestFitLength(block)
  IN IF isSafeZero(blockLength) \/ blockLength < MIN_RESOLUTION - Eps
       THEN [arena |-> arena, block |-> block, splitted |-> FALSE, splittedBlock |-> block]
     ELSE IF blockLength > bestFitLength + Eps
       THEN LET s == split(arena, block, block.start + bestFitLength, mi)
            IN [s EXCEPT !.block.length = bestFitLength]
     ELSE [arena |-> arena, block |-> [block EXCEPT !.length = bestFitLength],
           splitted |-> FALSE, splittedBlock |-> block]

\* a variant of the dotted cases that leaves the dot out
UndottedProperties(block) ==
  [block EXCEPT !.durationLines = IF isSafeZero(block.length - 3 * (One \div 4)) THEN 1
                                   ELSE IF isSafeZero(block.length - 3 * (One \div 8)) THEN 2
                                   ELSE Undefined]

\* JianpuBlock.calculateRenderProperties(measuresInfo): the dotted cases that
\* return early
DottedProperties(block) ==
  IF isSafeZero(block.length - 3 * (One \div 2))
    THEN [block EXCEPT !.durationLines = Undefined, !.augmentationDots = 1,
                       !.augmentationDash = "undefined"]
  ELSE IF isSafeZero(block.length - 3 * (One \div 4))
    THEN [block EXCEPT !.durationLines = 1, !.augmentationDots = 1,
                       !.augmentationDash = "undefined"]
  ELSE [block EXCEPT !.durationLines = 2, !.augmentationDots = 1,
                     !.augmentationDash = "undefined"]

\* a variant of the ladder with one line for everything below a quarter
CoarseDurationLines(blockLength) ==
  IF blockLength >= One - Eps THEN 0 ELSE 1

\* the durationLines ladder of calculateRenderProperties
DurationLines(blockLength) ==
  IF blockLength >= 4 * One - Eps THEN 0
  ELSE IF blockLength >= 2 * One - Eps THEN 0
  ELSE IF blockLength >= One - Eps THEN 0
  ELSE IF blockLength >= One \div 2 - Eps THEN 1
  ELSE IF blockLength >= One \div 4 - Eps THEN 2
  ELSE IF blockLength >= One \div 8 - Eps THEN 3
  ELSE IF blockLength >= One \div 16 - Eps THEN 4
  ELSE 4

\* a variant of the rule that never draws a dash
NoContinuationDash(arena, block, mi) == FALSE

\* the continuation-dash rule that ends calculateRenderProperties
ContinuationDash(arena, block, mi) ==
  /\ Len(block.notes) = 1
  /\ LET currentNote == arena[block.notes[1]]
         timeSignature == timeSignatureAtQ(mi, block.start)
         beatLength == Max((4 * One) \div timeSignature.denominator, One)
         isFirstBlock == block.measureNumber - Floor(block.measureNumber) * One <= Eps
     IN /\ ~isFirstBlock
        /\ currentNote.tiedFrom # 0
        /\ isSafeZero(arena[currentNote.tiedFrom].length - beatLength)
        /\ arena[currentNote.tiedFrom].pitch = currentNote.pitch
        /\ currentNote.length >= One
        /\ \/ currentNote.tiedTo = 0
           \/ LET nextNoteStart == currentNote.start + currentNote.length
                  currentMeasure == Floor(measureNumberAtQ(mi, block.start))
                  nextNoteMeasure == Floor(measureNumberAtQ(mi, nextNoteStart))
              IN /\ currentMeasure = nextNoteMeasure
                 /\ arena[currentNote.tiedTo].length >= One

\* JianpuBlock.calculateRenderProperties(measuresInfo)
calculateRenderProperties(arena, block, mi) ==
  LET blockLength == block.length
      reset == [block EXCEPT !.durationLines = Undefined, !.augmentationDots = Undefined,
                             !.augmentationDash = "undefined"]
      dottable == allowDottedRests \/ Len(block.notes) > 0
  IN IF isSafeZero(blockLength) \/ blockLength < 0 THEN reset
     ELSE IF /\ dottable
             /\ \/ isSafeZero(blockLength - 3 * (One \div 2))
                \/ isSafeZero(blockLength - 3 * (One \div 4))
                \/ isSafeZero(blockLength - 3 * (One \div 8))
       THEN DottedProperties(reset)
     ELSE [reset EXCEPT
             !.augmentationDots = IF dottable /\ isSafeZero(blockLength - 3 * One)
                                    THEN 1 ELSE Undefined,
             !.durationLines = DurationLines(blockLength),
             !.augmentationDash = Bool(ContinuationDash(arena, block, mi))]

\* position of the key in a Map kept as a sequence of entries in insertion
\* order; 0 when the key is absent (Map.get compares keys exactly)
MapIndex(map, key) ==
  IF \E i \in 1..Len(map) : map[i].key = key
    THEN CHOOSE i \in 1..Len(map) : map[i].key = key
    ELSE 0

\* Map.set(key, value)
MapSet(map, key, value) ==
  IF MapIndex(map, key) # 0
    THEN [map EXCEPT ![MapIndex(map, key)].value = value]
    ELSE Append(map, [key |-> key, value |-> value])

\* JianpuBlock.mergeToMap(map): the map and arena afterwards
mergeToMap(arena, map, block) ==
  LET i == MapIndex(map, block.start)
  IN IF i # 0
       THEN With(addNotes(arena, map[i].value, block.notes),
                 LAMBDA r :
                   [arena |-> r.arena,
                    map |-> [map EXCEPT ![i].value =
                               IF block.measureNumber # 0
                                 THEN [r.block EXCEPT !.measureNumber = block.measureNumber]
                                 ELSE r.block]])
       ELSE [arena |-> arena, map |-> Append(map, [key |-> block.start, value |-> block])]

(***************************************************************************)
(* JianpuModel (jianpu_model.ts): state and build steps                    *)
(***************************************************************************)
VARIABLES
  pc,                   \* position in constructor/update/infoToBlocks
  jianpuInfo,           \* JianpuModel.jianpuInfo (the caller's object, mutated by update)
  defaultKey,           \* the defaultKey argument (Undefined when not passed)
  lastQ,                \* JianpuModel.lastQ
  measuresInfo,         \* JianpuModel.measuresInfo (the chunk array)
  jianpuBlockMap,       \* JianpuModel.jianpuBlockMap, entries in insertion order
  arena,                \* every JianpuNote object created so far
  rawBlocks,            \* infoToBlocks: rawBlocks, entries in insertion order
  lastNoteEndTime,      \* infoToBlocks: lastNoteEndTime
  noteIndex,            \* infoToBlocks: position of the notes.forEach
  blockProcessingQueue, \* infoToBlocks: blockProcessingQueue
  probe,                \* a call of mapMidiToJianpu and what it returned
  calls                 \* history of the calls of update, the constructor's first (kept
                        \* by the specifications that read it)

vars == << pc, jianpuInfo, defaultKey, lastQ, measuresInfo, jianpuBlockMap, arena,
           rawBlocks, lastNoteEndTime, noteIndex, blockProcessingQueue, probe, calls >>

\* bounds of the inputs explored
MaxNotes == 2

MaxPitch == 115

MaxKey == 11

\* n sixty-fourth notes (n/16 of a quarter), in fixed point
Q16(n) == n * MIN_RESOLUTION

NoteInfo(start16, length16, pitch) ==
  [start |-> Q16(start16), length |-> Q16(length16), pitch |-> pitch]

\* the notes a score is drawn from
NoteChoices ==
  { NoteInfo(0, 48, 67), NoteInfo(60, 4, 67), NoteInfo(0, 42, 67), NoteInfo(64, 16, 67),
    NoteInfo(0, 16, 60), NoteInfo(8, 16, 62), NoteInfo(0, 14, 60), NoteInfo(12, 1, 60),
    NoteInfo(6, 16, 60), NoteInfo(16, 8, 67), NoteInfo(24, 4, 61), NoteInfo(0, 32, 64),
    NoteInfo(2, 2, 67), NoteInfo(32, 16, 60) }

RECURSIVE SeqsUpTo(_, _)
SeqsUpTo(S, n) ==
  IF n = 0 THEN { <<>> }
  ELSE LET shorter == SeqsUpTo(S, n - 1)
       IN shorter \cup { Append(q, x) : q \in { r \in shorter : Len(r) = n - 1 }, x \in S }

TimeSignature(start16, numerator, denominator) ==
  [start |-> Q16(start16), numerator |-> numerator, denominator |-> denominator]

\* the optional lists a score is drawn with (<<>>: the list is missing); the
\* measure lengths are powers of two, for which the doubles of the beat and
\* measure arithmetic are exact and equal starts give equal map keys
TimeSignatureChoices == { <<>>, << TimeSignature(0, 2, 4) >>, << TimeSignature(0, 1, 1) >> }

KeySignatureChoices == { <<>>, << [start |-> 0, key |-> 7] >> }

TempoChoices == { <<>> }

DefaultKeyChoices == { Undefined }

NoProbe ==
  [stage |-> "idle", midiPitch |-> 0, key |-> 0,
   result |-> mapMidiToJianpu(0, 0), shifted |-> mapMidiToJianpu(0, 0)]

\* a call update(jianpuInfo, defaultKey) as the history keeps it: the contents
\* of the object passed, the contents the caller created that object with,
\* the key passed, whether the object is the one the call before was given,
\* and, once the next call is made, what the build left
NewCall(info, supplied, key, reused) ==
  [info |-> info, supplied |-> supplied, defaultKey |-> key, reused |-> reused,
   built |-> FALSE, roundoff |-> 0, lastQ |-> 0, measuresInfo |-> <<>>,
   jianpuBlockMap |-> <<>>, arena |-> <<>>]

\* JianpuModel.constructor up to its call of update
Init ==
  /\ pc = "update"
  /\ jianpuInfo \in [notes : SeqsUpTo(NoteChoices, MaxNotes),
                     tempos : TempoChoices,
                     keySignatures : KeySignatureChoices,
                     timeSignatures : TimeSignatureChoices]
  /\ defaultKey \in DefaultKeyChoices
  /\ lastQ = 0
  /\ measuresInfo = <<>>
  /\ jianpuBlockMap = <<>>
  /\ arena = <<>>
  /\ rawBlocks = <<>>
  /\ lastNoteEndTime = 0
  /\ noteIndex = 1
  /\ blockProcessingQueue = <<>>
  /\ probe = NoProbe
  /\ calls = <<>>

\* a variant of the lastQ loop that starts from the lastQ of the build before
\* instead of 0
StaleMaxNoteEnd(notes) ==
  LET ends == { notes[i].start + notes[i].length : i \in 1..Len(notes) } \cup { lastQ }
  IN CHOOSE m \in ends : \A e \in ends : e <= m

\* the largest note.start + note.length, from 0
RECURSIVE MaxNoteEnd(_)
MaxNoteEnd(notes) ==
  IF notes = <<>> THEN 0
  ELSE Max(MaxNoteEnd(SubSeq(notes, 1, Len(notes) - 1)),
           notes[Len(notes)].start + notes[Len(notes)].length)

\* x + 1e-6 in double arithmetic, where the sum is stored: the rounded sum
\* less x is 1e-6 or a rounding error away from it, by the magnitude of x
\* (1.5 + 1e-6 - 1.5 < 1e-6 < 2 + 1e-6 - 2).  An error below the tolerance
\* acts like none, so the outcomes are the exact sum and the sum one unit up.
AddEps(x) == IF x = 0 THEN { Eps } ELSE { x + Eps, x + Eps + 1 }

\* a variant of the list normalisation that never unshifts the default
SortedOrDefault(list, dflt) ==
  SortByStart(IF Len(list) # 0 THEN list ELSE << dflt >>)

\* list && list.length ? list : [dflt]; sort by start; unshift dflt at start 0
\* when the first entry starts after 1e-6
NormalizeList(list, dflt) ==
  LET given == IF Len(list) # 0 THEN list ELSE << dflt >>
      sorted == SortByStart(given)
  IN IF sorted[1].start > Eps
       THEN << [dflt EXCEPT !.start = 0] >> \o sorted
       ELSE sorted

\* JianpuModel.update up to its call of infoToBlocks, and the locals
\* infoToBlocks starts with
Update ==
  /\ pc = "update"
  /\ \E startingKey \in { IF defaultKey # Undefined
                             THEN [start |-> 0, key |-> defaultKey]
                             ELSE DEFAULT_KEY_SIGNATURE } :
     \E info \in { [notes |-> SortByStart(jianpuInfo.notes),
                    tempos |-> NormalizeList(jianpuInfo.tempos, DEFAULT_TEMPO),
                    keySignatures |-> NormalizeList(jianpuInfo.keySignatures, startingKey),
                    timeSignatures |-> NormalizeList(jianpuInfo.timeSignatures,
                                                     DEFAULT_TIME_SIGNATURE)] } :
        /\ jianpuInfo' = info
        /\ \E sum \in AddEps(MaxNoteEnd(info.notes)) :
             /\ lastQ' = sum
             /\ measuresInfo' = NewMeasuresInfo(info, sum)
  /\ arena' = <<>>
  /\ rawBlocks' = <<>>
  /\ lastNoteEndTime' = 0
  /\ noteIndex' = 1
  /\ blockProcessingQueue' = <<>>
  /\ pc' = "pass1"
  /\ UNCHANGED << defaultKey, jianpuBlockMap, probe, calls >>

\* JianpuModel.createJianpuNote(note, key); src is the note's index in notes
createJianpuNote(note, key, src) ==
  LET details == mapMidiToJianpu(note.pitch, key)
  IN [start |-> note.start, length |-> note.length, pitch |-> note.pitch,
      jianpuNumber |-> details.jianpuNumber,
      octaveDot |-> details.octaveDot,
      accidental |-> details.accidental,
      tiedFrom |-> 0, tiedTo |-> 0, src |-> src]

\* infoToBlocks: one iteration of this.jianpuInfo.notes.forEach
Pass1Note ==
  /\ pc = "pass1"
  /\ noteIndex <= Len(jianpuInfo.notes)
  /\ \E note \in { jianpuInfo.notes[noteIndex] } :
     \E noteStart \in { note.start } :
     \E measureNumber \in { measureNumberAtQ(measuresInfo, noteStart) } :
     \E restStart \in { lastNoteEndTime } :
     \E restBlock \in { NewJianpuBlock(restStart, noteStart - restStart, <<>>,
                                       measureNumberAtQ(measuresInfo, restStart)) } :
     \E withRest \in { IF noteStart > lastNoteEndTime + Eps
                          THEN MapSet(rawBlocks, restStart, restBlock)
                          ELSE rawBlocks } :
     \E keySignatureKey \in { keySignatureAtQ(measuresInfo, noteStart) } :
     \E jianpuNote \in { createJianpuNote(note, keySignatureKey, noteIndex) } :
     \E withNote \in { Append(arena, jianpuNote) } :
     \E i \in { MapIndex(withRest, noteStart) } :
     \E block \in { IF i # 0 THEN withRest[i].value
                     ELSE NewJianpuBlock(noteStart, 0, <<>>, measureNumber) } :
     \E added \in { addNote(withNote, block, Len(withNote)) } :
        /\ arena' = added.arena
        /\ rawBlocks' = MapSet(withRest, noteStart, added.block)
        /\ lastNoteEndTime' = Max(lastNoteEndTime, noteStart + added.block.length)
  /\ noteIndex' = noteIndex + 1
  /\ UNCHANGED << pc, jianpuInfo, defaultKey, lastQ, measuresInfo, jianpuBlockMap,
                  blockProcessingQueue, probe, calls >>

\* Array.from(rawBlocks.keys()).sort((a, b) => a - b), each key with its block
RECURSIVE SortedByKey(_)
SortedByKey(map) ==
  IF map = <<>> THEN <<>>
  ELSE LET lo == CHOOSE i \in 1..Len(map) : \A j \in 1..Len(map) : map[i].key <= map[j].key
       IN << map[lo].value >>
          \o SortedByKey(SubSeq(map, 1, lo - 1) \o SubSeq(map, lo + 1, Len(map)))

\* infoToBlocks: the final rest, the new jianpuBlockMap and the queue
Pass1Finish ==
  /\ pc = "pass1"
  /\ noteIndex > Len(jianpuInfo.notes)
  /\ \E restStart \in { lastNoteEndTime } :
     \E restLength \in { lastQ - restStart } :
     \E restBlock \in { NewJianpuBlock(restStart, restLength, <<>>,
                                       measureNumberAtQ(measuresInfo, restStart)) } :
     \* lastNoteEndTime + 1e-6 is the double lastQ when every note has been
     \* covered up to the largest end
     \E endPlusEps \in { IF lastNoteEndTime = MaxNoteEnd(jianpuInfo.notes)
                            THEN lastQ ELSE lastNoteEndTime + Eps } :
     \E raw \in { IF lastQ > endPlusEps /\ restLength > Eps
                   THEN MapSet(rawBlocks, restStart, restBlock)
                   ELSE rawBlocks } :
        /\ rawBlocks' = raw
        /\ blockProcessingQueue' = SortedByKey(raw)
  /\ jianpuBlockMap' = <<>>
  /\ pc' = "pass2"
  /\ UNCHANGED << jianpuInfo, defaultKey, lastQ, measuresInfo, arena, lastNoteEndTime,
                  noteIndex, probe, calls >>

\* the do-while of infoToBlocks: split to standard symbols and merge each part
RECURSIVE SymbolSplitLoop(_, _, _, _)
SymbolSplitLoop(ar, map, blockToSymbolSplit, mi) ==
  With(splitToStandardSymbol(ar, blockToSymbolSplit, mi),
       LAMBDA s :
         With(mergeToMap(s.arena, map, s.block),
              LAMBDA m : IF s.splitted
                           THEN SymbolSplitLoop(m.arena, m.map, s.splittedBlock, mi)
                           ELSE m))

\* infoToBlocks: an iteration of the while loop in which splitToBeat splits
Pass2BeatSplit ==
  /\ pc = "pass2"
  /\ blockProcessingQueue # <<>>
  /\ \E s \in { splitToBeat(arena, Head(blockProcessingQueue), measuresInfo) } :
       /\ s.splitted
       /\ \E m \in { mergeToMap(s.arena, jianpuBlockMap, s.block) } :
            /\ arena' = m.arena
            /\ jianpuBlockMap' = m.map
       /\ blockProcessingQueue' = << s.splittedBlock >> \o Tail(blockProcessingQueue)
  /\ UNCHANGED << pc, jianpuInfo, defaultKey, lastQ, measuresInfo, rawBlocks,
                  lastNoteEndTime, noteIndex, probe, calls >>

\* infoToBlocks: an iteration of the while loop in which splitToBeat returns
\* null and the block goes through the symbol split
Pass2SymbolSplit ==
  /\ pc = "pass2"
  /\ blockProcessingQueue # <<>>
  /\ \E s \in { splitToBeat(arena, Head(blockProcessingQueue), measuresInfo) } :
       /\ ~s.splitted
       /\ \E m \in { SymbolSplitLoop(s.arena, jianpuBlockMap, s.block, measuresInfo) } :
            /\ arena' = m.arena
            /\ jianpuBlockMap' = m.map
       /\ blockProcessingQueue' = Tail(blockProcessingQueue)
  /\ UNCHANGED << pc, jianpuInfo, defaultKey, lastQ, measuresInfo, rawBlocks,
                  lastNoteEndTime, noteIndex, probe, calls >>

\* infoToBlocks: this.jianpuBlockMap.forEach(calculateRenderProperties)
Pass3 ==
  /\ pc = "pass2"
  /\ blockProcessingQueue = <<>>
  /\ jianpuBlockMap' =
       [i \in 1..Len(jianpuBlockMap) |->
          [jianpuBlockMap[i] EXCEPT
             !.value = calculateRenderProperties(arena, jianpuBlockMap[i].value, measuresInfo)]]
  /\ pc' = "done"
  /\ UNCHANGED << jianpuInfo, defaultKey, lastQ, measuresInfo, arena, rawBlocks,
                  lastNoteEndTime, noteIndex, blockProcessingQueue, probe, calls >>

Next == Update \/ Pass1Note \/ Pass1Finish \/ Pass2BeatSplit \/ Pass2SymbolSplit \/ Pass3

Spec == Init /\ [][Next]_vars

\* update runs to completion without suspension points: a step that can be
\* taken is taken
LiveSpec == Init /\ [][Next]_vars /\ WF_vars(Next)

(***************************************************************************)
(* Scores in time signatures whose beat is longer than a quarter, where a  *)
(* note that crosses a beat can go on with a dotted length                 *)
(***************************************************************************)
DashNoteChoices ==
  { NoteInfo(0, 56, 67), NoteInfo(0, 48, 67), NoteInfo(0, 40, 64), NoteInfo(16, 40, 60),
    NoteInfo(32, 32, 60), NoteInfo(56, 8, 67), NoteInfo(0, 88, 62) }

DashTimeSignatureChoices == { << TimeSignature(0, 2, 2) >>, << TimeSignature(0, 4, 4) >> }

\* JianpuModel.constructor up to its call of update
DashInit ==
  /\ pc = "update"
  /\ jianpuInfo \in [notes : SeqsUpTo(DashNoteChoices, MaxNotes),
                     tempos : { <<>> },
                     keySignatures : { <<>> },
                     timeSignatures : DashTimeSignatureChoices]
  /\ defaultKey = Undefined
  /\ lastQ = 0
  /\ measuresInfo = <<>>
  /\ jianpuBlockMap = <<>>
  /\ arena = <<>>
  /\ rawBlocks = <<>>
  /\ lastNoteEndTime = 0
  /\ noteIndex = 1
  /\ blockProcessingQueue = <<>>
  /\ probe = NoProbe
  /\ calls = <<>>

DashSpec == DashInit /\ [][Next]_vars

(***************************************************************************)
(* Rebuilds: update called again on a built model, as redraw() does, with  *)
(* the object of the call before or with another score                     *)
(***************************************************************************)
MaxCalls == 3

Score(notes, keySignatures) ==
  [notes |-> notes, tempos |-> <<>>, keySignatures |-> keySignatures,
   timeSignatures |-> <<>>]

\* the scores a caller creates
RebuildScores ==
  { Score(<<>>, <<>>),
    Score(<< NoteInfo(0, 16, 61) >>, <<>>),
    Score(<< NoteInfo(0, 48, 67), NoteInfo(60, 4, 67) >>, <<>>),
    Score(<< NoteInfo(16, 8, 67) >>, << [start |-> 0, key |-> 7] >>),
    Score(<< NoteInfo(8, 16, 61), NoteInfo(0, 8, 66) >>, << [start |-> Q16(8), key |-> 2] >>) }

\* the defaultKey arguments (Undefined: the argument is not passed)
DefaultKeyArguments == { Undefined, 7 }

\* new JianpuModel(jianpuInfo, defaultKey) up to its call of update
RebuildInit ==
  /\ pc = "update"
  /\ jianpuInfo \in RebuildScores
  /\ defaultKey \in DefaultKeyArguments
  /\ lastQ = 0
  /\ measuresInfo = <<>>
  /\ jianpuBlockMap = <<>>
  /\ arena = <<>>
  /\ rawBlocks = <<>>
  /\ lastNoteEndTime = 0
  /\ noteIndex = 1
  /\ blockProcessingQueue = <<>>
  /\ probe = NoProbe
  /\ calls = << NewCall(jianpuInfo, jianpuInfo, defaultKey, FALSE) >>

\* what the build that has just ended left, for the history
Built(call) ==
  [call EXCEPT !.built = TRUE,
               !.roundoff = lastQ - MaxNoteEnd(jianpuInfo.notes),
               !.lastQ = lastQ,
               !.measuresInfo = measuresInfo,
               !.jianpuBlockMap = jianpuBlockMap,
               !.arena = arena]

\* a caller's update(jianpuInfo, defaultKey) on the built model, up to the
\* body of update: the object passed is the one of the call before, as
\* update left it, or a score the caller has just created
CallUpdate ==
  /\ pc = "done"
  /\ Len(calls) < MaxCalls
  /\ \E key \in DefaultKeyArguments :
     \E passed \in { NewCall(jianpuInfo, calls[Len(calls)].supplied, key, TRUE) }
                    \cup { NewCall(s, s, key, FALSE) : s \in RebuildScores } :
        /\ jianpuInfo' = passed.info
        /\ defaultKey' = key
        /\ calls' = Append([calls EXCEPT ![Len(calls)] = Built(@)], passed)
  /\ pc' = "update"
  /\ UNCHANGED << lastQ, measuresInfo, jianpuBlockMap, arena, rawBlocks, lastNoteEndTime,
                  noteIndex, blockProcessingQueue, probe >>

RebuildNext == Next \/ CallUpdate

RebuildSpec == RebuildInit /\ [][RebuildNext]_vars

(***************************************************************************)
(* The same notes in another order: update called on the built model with  *)
(* a score that holds the notes of the first one, permuted                 *)
(***************************************************************************)
PermuteNoteChoices ==
  { NoteInfo(0, 16, 60), NoteInfo(0, 48, 67), NoteInfo(0, 16, 64), NoteInfo(0, 14, 60),
    NoteInfo(16, 8, 67), NoteInfo(24, 4, 61) }

\* the arrangements of the notes of a collection
Permuted(notes) ==
  { [i \in 1..Len(notes) |-> notes[f[i]]] :
      f \in { g \in [1..Len(notes) -> 1..Len(notes)] :
                \A i, j \in 1..Len(notes) : g[i] = g[j] => i = j } }

\* new JianpuModel(jianpuInfo) up to its call of update
PermuteInit ==
  /\ pc = "update"
  /\ jianpuInfo \in { Score(notes, <<>>) : notes \in SeqsUpTo(PermuteNoteChoices, MaxNotes) }
  /\ defaultKey = Undefined
  /\ lastQ = 0
  /\ measuresInfo = <<>>
  /\ jianpuBlockMap = <<>>
  /\ arena = <<>>
  /\ rawBlocks = <<>>
  /\ lastNoteEndTime = 0
  /\ noteIndex = 1
  /\ blockProcessingQueue = <<>>
  /\ probe = NoProbe
  /\ calls = << NewCall(jianpuInfo, jianpuInfo, defaultKey, FALSE) >>

\* a caller's update(jianpuInfo) on the built model with a score it has just
\* created from the notes of the first one, in any order
CallPermuted ==
  /\ pc = "done"
  /\ Len(calls) = 1
  /\ \E notes \in Permuted(calls[1].supplied.notes) :
     \E passed \in { NewCall(Score(notes, <<>>), Score(notes, <<>>), defaultKey, FALSE) } :
        /\ jianpuInfo' = passed.info
        /\ calls' = Append([calls EXCEPT ![1] = Built(@)], passed)
  /\ pc' = "update"
  /\ UNCHANGED << defaultKey, lastQ, measuresInfo, jianpuBlockMap, arena, rawBlocks,
                  lastNoteEndTime, noteIndex, blockProcessingQueue, probe >>

PermuteNext == Next \/ CallPermuted

PermuteSpec == PermuteInit /\ [][PermuteNext]_vars

(***************************************************************************)
(* The context index: scores with change events on and off the chunk grid, *)
(* built once and then queried as the renderer queries measuresInfo        *)
(***************************************************************************)
\* a third of a quarter: the step of eighth-note triplets
Triplet == One \div 3

ContextNotes ==
  { <<>>,
    << NoteInfo(16, 8, 61), NoteInfo(0, 16, 61), NoteInfo(24, 8, 66) >>,
    << [start |-> 0, length |-> 2 * Triplet, pitch |-> 66],
       [start |-> 2 * Triplet, length |-> Triplet, pitch |-> 66] >> }

KeySignature(start, key) == [start |-> start, key |-> key]

ContextKeys ==
  { <<>>,
    << KeySignature(Eps \div 2, 7) >>,
    << KeySignature(Q16(16), 7) >>,
    << KeySignature(Q16(24), 2), KeySignature(Q16(8), 7) >>,
    << KeySignature(0, 0), KeySignature(0, 0), KeySignature(Q16(16), 7) >>,
    << KeySignature(0, 0), KeySignature(2 * Triplet, 7) >>,
    << KeySignature(0, 0), KeySignature(Q16(16) + MIN_RESOLUTION \div 2, 7) >> }

ContextTempos ==
  { <<>>, << [start |-> Q16(8), qpm |-> 120], [start |-> 0, qpm |-> 90] >> }

ContextTimes ==
  { <<>>,
    << TimeSignature(0, 2, 4) >>,
    << TimeSignature(16, 2, 4) >>,
    << TimeSignature(0, 4, 4), TimeSignature(5, 2, 4) >> }

ContextDefaultKeys == { Undefined, 5 }

\* JianpuModel.constructor up to its call of update
ContextInit ==
  /\ pc = "update"
  /\ jianpuInfo \in [notes : ContextNotes,
                     tempos : ContextTempos,
                     keySignatures : ContextKeys,
                     timeSignatures : ContextTimes]
  /\ defaultKey \in ContextDefaultKeys
  /\ lastQ = 0
  /\ measuresInfo = <<>>
  /\ jianpuBlockMap = <<>>
  /\ arena = <<>>
  /\ rawBlocks = <<>>
  /\ lastNoteEndTime = 0
  /\ noteIndex = 1
  /\ blockProcessingQueue = <<>>
  /\ probe = NoProbe
  /\ calls = << NewCall(jianpuInfo, jianpuInfo, defaultKey, FALSE) >>

\* the times the index is queried at
QueryTimes ==
  { 0, Q16(5) - One \div 10000, Q16(5), Q16(16) - One \div 100, Q16(16), 2 * Triplet,
    Q16(17), Q16(24), Q16(28), Q16(40) }

\* tempoAtQ, keySignatureAtQ and timeSignatureAtQ at one time of the built
\* model, all with or all without onlyChanges.  The queries change nothing
\* of the model, so one query is followed per build.
QueryContext ==
  /\ pc = "done"
  /\ probe = NoProbe
  /\ \E start \in QueryTimes, onlyChanges \in BOOLEAN :
       probe' = [stage |-> "queried", start |-> start, onlyChanges |-> onlyChanges,
                 tempo |-> tempoAtQ(measuresInfo, start, onlyChanges),
                 key |-> IF onlyChanges
                           THEN keySignatureAtQOnlyChanges(measuresInfo, start)
                           ELSE keySignatureAtQ(measuresInfo, start),
                 time |-> IF onlyChanges
                            THEN timeSignatureAtQOnlyChanges(measuresInfo, start)
                            ELSE timeSignatureAtQ(measuresInfo, start)]
  /\ UNCHANGED << pc, jianpuInfo, defaultKey, lastQ, measuresInfo, jianpuBlockMap, arena,
                  rawBlocks, lastNoteEndTime, noteIndex, blockProcessingQueue, calls >>

\* measureNumberAtQ at two times of the built model, the earlier first
QueryMeasureNumbers ==
  /\ pc = "done"
  /\ probe = NoProbe
  /\ \E from \in QueryTimes, to \in QueryTimes :
       /\ from <= to
       /\ probe' = [stage |-> "numbered", from |-> from, to |-> to,
                    fromNumber |-> measureNumberAtQ(measuresInfo, from),
                    toNumber |-> measureNumberAtQ(measuresInfo, to)]
  /\ UNCHANGED << pc, jianpuInfo, defaultKey, lastQ, measuresInfo, jianpuBlockMap, arena,
                  rawBlocks, lastNoteEndTime, noteIndex, blockProcessingQueue, calls >>

ContextNext == Next \/ QueryContext \/ QueryMeasureNumbers

ContextSpec == ContextInit /\ [][ContextNext]_vars

(***************************************************************************)
(* Block operations on their own: JianpuBlock.split, splitJianpuNote and   *)
(* JianpuBlock.addNote called on the blocks and notes of a built model, at *)
(* split points inside, at and beyond their bounds and with notes that do  *)
(* and do not belong to the block                                          *)
(***************************************************************************)
SplitNoteChoices ==
  { NoteInfo(0, 48, 67), NoteInfo(0, 16, 60), NoteInfo(0, 14, 60), NoteInfo(8, 16, 62),
    NoteInfo(24, 4, 61),
    NoteInfo(0, 15, 60), NoteInfo(12, 1, 60) }

\* JianpuModel.constructor up to its call of update
SplitInit ==
  /\ pc = "update"
  /\ jianpuInfo \in [notes : SeqsUpTo(SplitNoteChoices, MaxNotes),
                     tempos : { <<>> },
                     keySignatures : { <<>> },
                     timeSignatures : { <<>> }]
  /\ defaultKey = Undefined
  /\ lastQ = 0
  /\ measuresInfo = <<>>
  /\ jianpuBlockMap = <<>>
  /\ arena = <<>>
  /\ rawBlocks = <<>>
  /\ lastNoteEndTime = 0
  /\ noteIndex = 1
  /\ blockProcessingQueue = <<>>
  /\ probe = NoProbe
  /\ calls = <<>>

\* the split points tried on a span [start, start + length)
SplitPoints(start, length) ==
  { start - MIN_RESOLUTION, start, start + length \div 2, start + length - Eps,
    start + length - Eps + 1, start + length - 1, start + length,
    start + length + MIN_RESOLUTION }

\* block.split(quarters, measuresInfo) on a block of the built model
SplitBlock ==
  /\ pc = "done"
  /\ probe = NoProbe
  /\ \E index \in 1..Len(jianpuBlockMap) :
     \E block \in { jianpuBlockMap[index].value } :
     \E quarters \in SplitPoints(block.start, block.length) :
     \E r \in { split(arena, block, quarters, measuresInfo) } :
        /\ arena' = r.arena
        /\ jianpuBlockMap' = [jianpuBlockMap EXCEPT ![index].value = r.block]
        /\ probe' = [stage |-> "split", quarters |-> quarters, index |-> index,
                     block |-> block, arena |-> arena, returned |-> r.splitted]
  /\ UNCHANGED << pc, jianpuInfo, defaultKey, lastQ, measuresInfo, rawBlocks,
                  lastNoteEndTime, noteIndex, blockProcessingQueue, calls >>

\* splitJianpuNote(note, quarters) on a note of the built model
SplitNote ==
  /\ pc = "done"
  /\ probe = NoProbe
  /\ \E id \in 1..Len(arena) :
     \E quarters \in SplitPoints(arena[id].start, arena[id].length) :
     \E r \in { splitJianpuNote(arena, id, quarters) } :
        /\ arena' = r.arena
        /\ probe' = [stage |-> "splitNote", quarters |-> quarters, id |-> id,
                     arena |-> arena, returned |-> r.splitted # 0]
  /\ UNCHANGED << pc, jianpuInfo, defaultKey, lastQ, measuresInfo, jianpuBlockMap,
                  rawBlocks, lastNoteEndTime, noteIndex, blockProcessingQueue, calls >>

\* the notes offered to a block: at its start or a step later, of a pitch it
\* holds or of another, shorter than the block, as long, or longer
OfferedNotes(block) ==
  { [start |-> start, length |-> length, pitch |-> pitch] :
      start \in { block.start, block.start + MIN_RESOLUTION },
      length \in { block.length \div 2, block.length, 2 * block.length },
      pitch \in { arena[block.notes[j]].pitch : j \in 1..Len(block.notes) } \cup { 72 } }

\* block.addNote(jianpuNote) on a block of the built model, with a note
\* created for the call
OfferNote ==
  /\ pc = "done"
  /\ probe = NoProbe
  /\ \E index \in 1..Len(jianpuBlockMap) :
     \E block \in { jianpuBlockMap[index].value } :
     \E note \in OfferedNotes(block) :
     \E jianpuNote \in { createJianpuNote(note, keySignatureAtQ(measuresInfo, note.start), 0) } :
     \E r \in { addNote(Append(arena, jianpuNote), block, Len(arena) + 1) } :
        /\ arena' = r.arena
        /\ jianpuBlockMap' = [jianpuBlockMap EXCEPT ![index].value = r.block]
        /\ probe' = [stage |-> "added", index |-> index, id |-> Len(arena) + 1,
                     block |-> block, arena |-> arena, returned |-> r.ret]
  /\ UNCHANGED << pc, jianpuInfo, defaultKey, lastQ, measuresInfo, rawBlocks,
                  lastNoteEndTime, noteIndex, blockProcessingQueue, calls >>

SplitNext == Next \/ SplitBlock \/ SplitNote \/ OfferNote

SplitSpec == SplitInit /\ [][SplitNext]_vars

(***************************************************************************)
(* The pitch mapper on its own: every pitch and key, and the pitch an      *)
(* octave above                                                            *)
(***************************************************************************)
MapInit ==
  /\ pc = "map"
  /\ jianpuInfo = [notes |-> <<>>, tempos |-> <<>>, keySignatures |-> <<>>,
                   timeSignatures |-> <<>>]
  /\ defaultKey = Undefined
  /\ lastQ = 0
  /\ measuresInfo = <<>>
  /\ jianpuBlockMap = <<>>
  /\ arena = <<>>
  /\ rawBlocks = <<>>
  /\ lastNoteEndTime = 0
  /\ noteIndex = 1
  /\ blockProcessingQueue = <<>>
  /\ \E p \in 0..MaxPitch, k \in 0..MaxKey :
       probe = [NoProbe EXCEPT !.stage = "called", !.midiPitch = p, !.key = k]
  /\ calls = <<>>

\* a call mapMidiToJianpu(midiPitch, key), and the call with midiPitch + 12
MapPitch ==
  /\ pc = "map"
  /\ probe.stage = "called"
  /\ probe' = [probe EXCEPT !.stage = "returned",
                            !.result = mapMidiToJianpu(probe.midiPitch, probe.key),
                            !.shifted = mapMidiToJianpu(probe.midiPitch + 12, probe.key)]
  /\ UNCHANGED << pc, jianpuInfo, defaultKey, lastQ, measuresInfo, jianpuBlockMap, arena,
                  rawBlocks, lastNoteEndTime, noteIndex, blockProcessingQueue, calls >>

MapNext == MapPitch

MapSpec == MapInit /\ [][MapNext]_vars

(***************************************************************************)
(* Properties of a finished build (checked under Spec)                     *)
(***************************************************************************)
Done == pc = "done"

\* JianpuModel.getTotalDuration()
getTotalDuration == lastQ

\* the final blocks in ascending order of their keys
FinalBlocks == SortedByKey(jianpuBlockMap)

\* equal within 1e-6
Near(a, b) == Abs(a - b) <= Eps

\* the score has the one time signature 4/4
InFourFour ==
  /\ Len(jianpuInfo.timeSignatures) = 1
  /\ jianpuInfo.timeSignatures[1].numerator = 4
  /\ jianpuInfo.timeSignatures[1].denominator = 4

StandardDurations ==
  { Q16(96), Q16(64), Q16(48), Q16(32), Q16(24), Q16(16), Q16(12), Q16(8), Q16(6),
    Q16(4), Q16(2), Q16(1) }

IsStandard(length) == \E d \in StandardDurations : Near(length, d)

\* C1: after a build the final blocks in ascending start order partition
\* [0, totalDuration): the first starts at 0, each next one starts where the
\* one before ends (within 1e-6), and the last ends at totalDuration (within
\* 1e-6, the 1e-6 that totalDuration carries beyond the last note aside)
C1_Partition ==
  (Done /\ Len(FinalBlocks) > 0) =>
    /\ FinalBlocks[1].start = 0
    /\ \A i \in 1..(Len(FinalBlocks) - 1) :
         Near(FinalBlocks[i + 1].start, FinalBlocks[i].start + FinalBlocks[i].length)
    /\ Abs(FinalBlocks[Len(FinalBlocks)].start + FinalBlocks[Len(FinalBlocks)].length
            - getTotalDuration) <= 2 * Eps

\* the notes held by the blocks of the final map
NotesInMap ==
  UNION { { jianpuBlockMap[i].value.notes[j] : j \in 1..Len(jianpuBlockMap[i].value.notes) } :
          i \in 1..Len(jianpuBlockMap) }

\* the summed length of the notes reached from a note by following tiedTo
RECURSIVE ChainLength(_, _, _)
ChainLength(ar, id, fuel) ==
  IF id = 0 \/ fuel = 0 THEN 0
  ELSE ar[id].length + ChainLength(ar, ar[id].tiedTo, fuel - 1)

\* C2: for every note of the final map that heads a tie chain, the lengths
\* of the notes of the chain sum to the length of the input note the head
\* was created from
C2_TieChainLength ==
  Done =>
    \A id \in NotesInMap :
      (arena[id].tiedFrom = 0 /\ arena[id].tiedTo # 0) =>
        Near(ChainLength(arena, id, Len(arena)), jianpuInfo.notes[arena[id].src].length)

\* C3: every block of the final map has one of the standard lengths 6, 4, 3,
\* 2, 1.5, 1, 0.75, 0.5, 0.375, 0.25, 0.125, 0.0625 (within 1e-6)
C3_StandardLengths ==
  Done => \A i \in 1..Len(jianpuBlockMap) : IsStandard(jianpuBlockMap[i].value.length)

UndottedLengths == { Q16(16), Q16(8), Q16(4), Q16(2), Q16(1) }

\* an undotted standard length, at a multiple of itself
OnGrid(start, length) == length \in UndottedLengths /\ start % length = 0

\* where the span before note i begins: the end of the note before, or 0
PreviousEnd(i) ==
  IF i = 1 THEN 0
  ELSE jianpuInfo.notes[i - 1].start + jianpuInfo.notes[i - 1].length

\* the notes do not overlap, and each note and each rest before a note is
\* on the grid
GridScore ==
  /\ InFourFour
  /\ \A i \in 1..Len(jianpuInfo.notes) :
       LET note == jianpuInfo.notes[i]
       IN /\ OnGrid(note.start, note.length)
          /\ note.start >= PreviousEnd(i)
          /\ note.start > PreviousEnd(i) =>
               OnGrid(PreviousEnd(i), note.start - PreviousEnd(i))

\* the map has a block keyed exactly at start, of exactly that length, that
\* holds noteCount notes
HasBlock(start, length, noteCount) ==
  /\ MapIndex(jianpuBlockMap, start) # 0
  /\ LET block == jianpuBlockMap[MapIndex(jianpuBlockMap, start)].value
     IN /\ block.start = start
        /\ block.length = length
        /\ Len(block.notes) = noteCount

\* C7: in a 4/4 score of non-overlapping notes where every note and every
\* rest between them has an undotted standard length L and starts at a
\* multiple of L, the map holds a block keyed exactly at each start whose
\* length is exactly L, for notes and rests alike
C7_GridBlocks ==
  (Done /\ GridScore) =>
    \A i \in 1..Len(jianpuInfo.notes) :
      LET note == jianpuInfo.notes[i]
      IN /\ HasBlock(note.start, note.length, 1)
         /\ note.start > PreviousEnd(i) =>
              HasBlock(PreviousEnd(i), note.start - PreviousEnd(i), 0)

\* a built grid score of two notes with a rest between them
C7_Witness ==
  /\ Done /\ GridScore
  /\ Len(jianpuInfo.notes) = 2
  /\ jianpuInfo.notes[2].start > PreviousEnd(2)
  /\ HasBlock(PreviousEnd(2), jianpuInfo.notes[2].start - PreviousEnd(2), 0)
  /\ HasBlock(jianpuInfo.notes[2].start, jianpuInfo.notes[2].length, 1)

\* the first measure of a 4/4 score is silent: the first note starts at 4
SilentFirstMeasure ==
  /\ InFourFour
  /\ Len(jianpuInfo.notes) > 0
  /\ jianpuInfo.notes[1].start = 4 * One

\* the final blocks that start before the first note
SilentBlocks == SelectSeq(FinalBlocks, LAMBDA b : b.start < jianpuInfo.notes[1].start)

TiedNoteScore ==
  /\ InFourFour
  /\ Len(jianpuInfo.notes) = 1
  /\ jianpuInfo.notes[1].start = 0
  /\ jianpuInfo.notes[1].length = Q16(42)

\* the note of the i-th final block, for blocks of one note
FragmentId(i) == FinalBlocks[i].notes[1]

Fragment(i) == arena[FragmentId(i)]

RECURSIVE FragmentLengthSum(_)
FragmentLengthSum(n) ==
  IF n = 0 THEN 0 ELSE FragmentLengthSum(n - 1) + Fragment(n).length

\* C9: the note of start 0 and length 2.625 in 4/4 becomes consecutive
\* one-note blocks whose lengths are standard durations (within 1e-6) and
\* sum to 2.625, each after the first tied from the one before and the one
\* before tied to it, none longer than 2 quarters
C9_TiedFragments ==
  (Done /\ TiedNoteScore) =>
    /\ Len(FinalBlocks) >= 2
    /\ \A i \in 1..Len(FinalBlocks) :
         /\ Len(FinalBlocks[i].notes) = 1
         /\ IsStandard(FinalBlocks[i].length)
         /\ IsStandard(Fragment(i).length)
         /\ FinalBlocks[i].length <= 2 * One
         /\ Fragment(i).length <= 2 * One
         /\ Fragment(i).start = FinalBlocks[i].start
    /\ FinalBlocks[1].start = 0
    /\ Fragment(1).tiedFrom = 0
    /\ Fragment(Len(FinalBlocks)).tiedTo = 0
    /\ \A i \in 2..Len(FinalBlocks) :
         /\ Near(FinalBlocks[i].start, FinalBlocks[i - 1].start + FinalBlocks[i - 1].length)
         /\ Fragment(i).tiedFrom = FragmentId(i - 1)
         /\ Fragment(i - 1).tiedTo = FragmentId(i)
    /\ Near(FragmentLengthSum(Len(FinalBlocks)), Q16(42))

\* the note has been built into four tied fragments, the last the 32nd
C9_Witness ==
  /\ Done /\ TiedNoteScore
  /\ Len(FinalBlocks) = 4
  /\ Near(Fragment(4).length, Q16(2))
  /\ Fragment(4).tiedFrom = FragmentId(3)

\* the score is [{start 0, length 3, pitch 67}, {start 3.75, length 0.25,
\* pitch 67}] in 4/4
DottedHalfScore ==
  /\ InFourFour
  /\ jianpuInfo.notes = << NoteInfo(0, 48, 67), NoteInfo(60, 4, 67) >>

\* some block of the map starts at `start` and has that length (both within
\* 1e-6), holds noteCount notes and satisfies Q
BlockNear(start, length, noteCount, Q(_)) ==
  \E i \in 1..Len(jianpuBlockMap) :
    LET block == jianpuBlockMap[i].value
    IN /\ Near(block.start, start)
       /\ Near(block.length, length)
       /\ Len(block.notes) = noteCount
       /\ Q(block)

Returned == probe.stage = "returned"

\* C4: for every pitch and key, the pitch an octave above maps to the same
\* degree and the same accidental, with an octaveDot greater by exactly 1
C4_OctaveShift ==
  Returned =>
    /\ probe.shifted.jianpuNumber = probe.result.jianpuNumber
    /\ probe.shifted.accidental = probe.result.accidental
    /\ probe.shifted.octaveDot = probe.result.octaveDot + 1

\* a chromatic pitch below the reference tonic of G has been mapped
C4_Witness ==
  /\ Returned
  /\ probe.key = 7 /\ probe.midiPitch = 49
  /\ probe.result.accidental = 1
  /\ probe.shifted.octaveDot = probe.result.octaveDot + 1

\* degree and accidental of the pitches 60..71, as <<degree, accidental>>,
\* accidental 0 none, 1 sharp, 2 flat
SharpTable ==
  << <<1, 0>>, <<1, 1>>, <<2, 0>>, <<2, 1>>, <<3, 0>>, <<4, 0>>,
     <<4, 1>>, <<5, 0>>, <<5, 1>>, <<6, 0>>, <<6, 1>>, <<7, 0>> >>

MixedTable ==
  << <<1, 0>>, <<1, 1>>, <<2, 0>>, <<3, 2>>, <<3, 0>>, <<4, 0>>,
     <<4, 1>>, <<5, 0>>, <<6, 2>>, <<6, 0>>, <<7, 2>>, <<7, 0>> >>

InCMajorOctave == Returned /\ probe.key = 0 /\ probe.midiPitch \in 60..71

TonicInterval == (((probe.midiPitch - probe.key) % 12) + 12) % 12

DottedDurations == { Q16(48), Q16(24), Q16(12), Q16(6) }

\* C11: after a build with the default configuration no rest block (a block
\* without notes) of the final map has a dotted length (3, 1.5, 0.75 or 0.375
\* within 1e-6) or an augmentation dot
C11_NoDottedRests ==
  Done =>
    \A i \in 1..Len(jianpuBlockMap) :
      LET b == jianpuBlockMap[i].value
      IN Len(b.notes) = 0 =>
           /\ \A d \in DottedDurations : ~Near(b.length, d)
           /\ b.augmentationDots < 1

\* C16: after a build, enumerating jianpuBlockMap (a Map enumerates in
\* insertion order) yields the blocks in strictly ascending order of start
C16_AscendingStarts ==
  Done =>
    \A i \in 1..(Len(jianpuBlockMap) - 1) :
      /\ jianpuBlockMap[i].key < jianpuBlockMap[i + 1].key
      /\ jianpuBlockMap[i].value.start < jianpuBlockMap[i + 1].value.start

(***************************************************************************)
(* Termination of a build (checked under LiveSpec)                         *)
(***************************************************************************)
\* the summed length of the blocks waiting in blockProcessingQueue
RECURSIVE QueuedLength(_)
QueuedLength(queue) ==
  IF queue = <<>> THEN 0 ELSE Head(queue).length + QueuedLength(Tail(queue))

\* C20: every build, the one of an empty note list included, reaches the end
\* of update with a block map, and every turn of the Pass 2 loop leaves
\* strictly less length waiting in the queue than it found
C20_Terminates ==
  /\ <>Done
  /\ [][(pc = "pass2" /\ pc' = "pass2") =>
          QueuedLength(blockProcessingQueue') < QueuedLength(blockProcessingQueue)]_vars

\* a build finished with an empty queue after at least three splits
C20_Witness ==
  /\ Done
  /\ blockProcessingQueue = <<>>
  /\ Len(jianpuBlockMap) >= Len(rawBlocks) + 3

(***************************************************************************)
(* Properties of rebuilds (checked under RebuildSpec)                      *)
(***************************************************************************)
\* the call of update whose build is running or has just ended
ThisCall == calls[Len(calls)]

\* the score has no key signature at time 0 (within 1e-6)
NoKeyAtZero(info) ==
  \A i \in 1..Len(info.keySignatures) : info.keySignatures[i].start > Eps

\* C14: after update(jianpuInfo, defaultKey), first or repeated, with the
\* object of the call before or with another, when the score the caller
\* created has no key signature at time 0 the key in force at time 0 is the
\* defaultKey of that call, or 0 when none was passed
C14_DefaultKeyInForce ==
  (Done /\ NoKeyAtZero(ThisCall.supplied)) =>
    keySignatureAtQ(measuresInfo, 0) =
      (IF ThisCall.defaultKey = Undefined THEN DEFAULT_KEY_SIGNATURE.key
       ELSE ThisCall.defaultKey)

\* the earlier call i was given the same score and key as this call: the same
\* contents, or this call follows it with the object it left; the stored
\* sum lastQ fell on the same side in both
SameCall(i) ==
  /\ calls[i].defaultKey = ThisCall.defaultKey
  /\ calls[i].roundoff = lastQ - MaxNoteEnd(jianpuInfo.notes)
  /\ \/ calls[i].info = ThisCall.info
     \/ i = Len(calls) - 1 /\ ThisCall.reused

\* C15: after update on a built model the block map with its notes and tie
\* links, the context index and the total duration are those of every earlier
\* build from the same score and key, the build of the fresh model included:
\* nothing of the builds in between survives, and update called again with
\* the score of the call before changes nothing
C15_FullRebuild ==
  Done =>
    \A i \in 1..(Len(calls) - 1) :
      SameCall(i) =>
        /\ calls[i].jianpuBlockMap = jianpuBlockMap
        /\ calls[i].arena = arena
        /\ calls[i].measuresInfo = measuresInfo
        /\ calls[i].lastQ = getTotalDuration

\* the third build is from the score of the fresh model's build, after a
\* build from another score that left other blocks and another duration
C15_Witness ==
  /\ Done
  /\ Len(calls) = 3
  /\ SameCall(1)
  /\ ~ThisCall.reused
  /\ calls[2].info # ThisCall.info
  /\ calls[2].lastQ > lastQ
  /\ Len(jianpuBlockMap) > 2
  /\ calls[2].jianpuBlockMap # jianpuBlockMap

(***************************************************************************)
(* Properties of the normalised lists and the context index (checked       *)
(* under ContextSpec)                                                      *)
(***************************************************************************)
\* the lists of the score as the caller passed it, and as update left them
SuppliedLists ==
  << ThisCall.info.tempos, ThisCall.info.keySignatures, ThisCall.info.timeSignatures >>

NormalizedLists ==
  << jianpuInfo.tempos, jianpuInfo.keySignatures, jianpuInfo.timeSignatures >>

\* the defaults 60 qpm, key 0 and 4/4
FixedDefaults == << DEFAULT_TEMPO, DEFAULT_KEY_SIGNATURE, DEFAULT_TIME_SIGNATURE >>

\* the defaults with the key of the call, when one was passed
CallDefaults ==
  << DEFAULT_TEMPO,
     IF ThisCall.defaultKey = Undefined THEN DEFAULT_KEY_SIGNATURE
     ELSE KeySignature(0, ThisCall.defaultKey),
     DEFAULT_TIME_SIGNATURE >>

Occurrences(list, e) == Cardinality({ i \in 1..Len(list) : list[i] = e })

\* the two lists hold the same entries, each as many times
SameEntries(a, b) ==
  /\ Len(a) = Len(b)
  /\ \A i \in 1..Len(a) : Occurrences(a, a[i]) = Occurrences(b, a[i])

\* list is non-empty, sorted by start and starts at 0 (to within tolerance); it
\* is the default alone when none was given, the default and the given
\* entries when all of them start after 0, and the given entries otherwise
IsNormalized(given, list, dflt, tolerance) ==
  /\ Len(list) > 0
  /\ \A i \in 1..(Len(list) - 1) : list[i].start <= list[i + 1].start
  /\ list[1].start >= 0 /\ list[1].start <= tolerance
  /\ Len(given) = 0 => list = << dflt >>
  /\ (Len(given) > 0 /\ \A i \in 1..Len(given) : given[i].start > tolerance)
       => list[1] = dflt /\ SameEntries(Tail(list), given)
  /\ (Len(given) > 0 /\ \E i \in 1..Len(given) : given[i].start <= tolerance)
       => SameEntries(list, given)

\* C13 (as stated): after update each of the tempo, key-signature and
\* time-signature lists is non-empty, sorted by start and has its first entry
\* at 0: a missing or empty list is the single default (60 qpm, key 0, 4/4),
\* a list whose earliest entry starts after 0 has that default prepended at
\* start 0, and all supplied entries are kept
C13_DefaultsAtZero ==
  Done => \A k \in 1..3 : IsNormalized(SuppliedLists[k], NormalizedLists[k], FixedDefaults[k], 0)

\* C13 (amended): after update each of the three lists is non-empty, sorted
\* by start and has its first entry within 1e-6 of 0: a missing or empty list
\* is the single default (60 qpm, the defaultKey of the call or key 0 when
\* none was passed, 4/4), a list whose earliest entry starts more than 1e-6
\* after 0 has that default prepended at start 0, and all supplied entries
\* are kept and no other entry is added
C13_DefaultsNearZero ==
  Done => \A k \in 1..3 : IsNormalized(SuppliedLists[k], NormalizedLists[k], CallDefaults[k], Eps)

\* a default key was passed, the key signatures supplied were out of order
\* and all after 0, the tempos out of order with one at 0, no time signature
C13_Witness ==
  /\ Done
  /\ ThisCall.defaultKey = 5
  /\ ThisCall.info.keySignatures = << KeySignature(Q16(24), 2), KeySignature(Q16(8), 7) >>
  /\ jianpuInfo.keySignatures
       = << KeySignature(0, 5), KeySignature(Q16(8), 7), KeySignature(Q16(24), 2) >>
  /\ ThisCall.info.tempos # <<>>
  /\ Len(jianpuInfo.tempos) = 2 /\ jianpuInfo.tempos[1].qpm = 90
  /\ ThisCall.info.timeSignatures = <<>>
  /\ jianpuInfo.timeSignatures = << DEFAULT_TIME_SIGNATURE >>

\* the index of the latest entry of a normalised list that starts at or
\* before t (the first entry when none does)
LatestIndex(list, t) ==
  LET started == { i \in 1..Len(list) : list[i].start <= t }
  IN IF started = {} THEN 1 ELSE CHOOSE i \in started : \A j \in started : j <= i

\* C12: every note created in Pass 1 (a note that is not the remainder of a
\* split) carries the degree, octave offset and accidental that
\* mapMidiToJianpu returns for its pitch and the key active at its start,
\* whatever was marked before it, and a key change is active for the notes
\* that start at or after it
C12_NoteAttributes ==
  Done =>
    \A id \in { i \in 1..Len(arena) : arena[i].tiedFrom = 0 } :
      LET note == jianpuInfo.notes[arena[id].src]
          keys == jianpuInfo.keySignatures
          details == mapMidiToJianpu(note.pitch, keys[LatestIndex(keys, note.start)].key)
      IN /\ arena[id].jianpuNumber = details.jianpuNumber
         /\ arena[id].octaveDot = details.octaveDot
         /\ arena[id].accidental = details.accidental

\* a query made without onlyChanges at a time before the end of the score
QueriedInScore ==
  /\ probe.stage = "queried"
  /\ ~probe.onlyChanges
  /\ probe.start < MaxNoteEnd(jianpuInfo.notes)

\* the entries of a normalised list one of which is the latest at or before a
\* time within half a resolution step of t
LatestNear(list, t) ==
  { list[i] : i \in LatestIndex(list, t - MIN_RESOLUTION \div 2)
                    ..LatestIndex(list, t + MIN_RESOLUTION \div 2) }

\* C17: at every time t before the end of the score, tempoAtQ(t),
\* keySignatureAtQ(t) and timeSignatureAtQ(t) without onlyChanges return the
\* value of the latest change event of the normalised list that starts at or
\* before t, to within half a resolution step: no change event that starts
\* before the end of the score is without effect
C17_LatestChange ==
  QueriedInScore =>
    /\ \E e \in LatestNear(jianpuInfo.tempos, probe.start) : probe.tempo = e.qpm
    /\ \E e \in LatestNear(jianpuInfo.keySignatures, probe.start) : probe.key = e.key
    /\ \E e \in LatestNear(jianpuInfo.timeSignatures, probe.start) : probe.time = e

\* the chunks with a recorded change of the kind within half a resolution
\* step of t, on either side
ChangesNear(Changed(_), t) ==
  { k \in 1..Len(measuresInfo) :
      Changed(measuresInfo[k]) /\ Abs(measuresInfo[k].start - t) < MIN_RESOLUTION \div 2 }

\* the value is that of a change recorded near t, the sentinel when there is none
ChangeOrSentinel(value, Changed(_), Value(_), sentinel, t) ==
  IF ChangesNear(Changed, t) = {} THEN value = sentinel
  ELSE \E k \in ChangesNear(Changed, t) : value = Value(measuresInfo[k])

\* C18: with onlyChanges, tempoAtQ, keySignatureAtQ and timeSignatureAtQ
\* return the new value at every time within half a resolution step, on
\* either side, of a recorded change, and the sentinel (-1, -1, null) at
\* every other time
C18_OnlyChanges ==
  (probe.stage = "queried" /\ probe.onlyChanges) =>
    /\ ChangeOrSentinel(probe.tempo, LAMBDA c : c.tempoChange, LAMBDA c : c.tempo.qpm,
                        Undefined, probe.start)
    /\ ChangeOrSentinel(probe.key, LAMBDA c : c.keyChange, LAMBDA c : c.keySignature.key,
                        Undefined, probe.start)
    /\ ChangeOrSentinel(probe.time, LAMBDA c : c.timeChange, LAMBDA c : c.timeSignature,
                        Null, probe.start)

\* the score has one time signature
SingleTimeSignature == Len(jianpuInfo.timeSignatures) = 1

\* C19: measureNumberAtQ does not decrease with t, is 1 at t = 0, and under a
\* single time signature has the integer part 1 + floor(t / measure length)
C19_MeasureNumbers ==
  probe.stage = "numbered" =>
    /\ probe.fromNumber <= probe.toNumber
    /\ probe.from = 0 => Near(probe.fromNumber, One)
    /\ SingleTimeSignature =>
         Floor(probe.toNumber)
           = 1 + probe.to \div getMeasureLength(jianpuInfo.timeSignatures[1])

(***************************************************************************)
(* Properties of the splits (checked under SplitSpec)                      *)
(***************************************************************************)
\* the split point is at or before the start of the span, at or after its
\* end, or within 1e-6 of its end
Degenerate(quarters, start, length) ==
  \/ quarters <= start
  \/ quarters >= start + length
  \/ start + length - quarters < Eps

\* C21: block.split(q) and splitJianpuNote(note, q) with q at or before the
\* start, at or after the end, or within 1e-6 of the end, return null and
\* leave the block's start, length and notes and every note's length and tie
\* links as they were
C21_DegenerateSplit ==
  /\ (probe.stage = "split"
        /\ Degenerate(probe.quarters, probe.block.start, probe.block.length))
       => /\ ~probe.returned
          /\ jianpuBlockMap[probe.index].value = probe.block
          /\ arena = probe.arena
  /\ (probe.stage = "splitNote"
        /\ Degenerate(probe.quarters, probe.arena[probe.id].start,
                      probe.arena[probe.id].length))
       => /\ ~probe.returned
          /\ arena = probe.arena

\* a split of a tied note at a point less than 1e-6 before its end
C21_Witness ==
  /\ probe.stage = "splitNote"
  /\ probe.arena[probe.id].tiedTo # 0
  /\ probe.quarters < probe.arena[probe.id].start + probe.arena[probe.id].length
  /\ probe.quarters > probe.arena[probe.id].start
  /\ Degenerate(probe.quarters, probe.arena[probe.id].start, probe.arena[probe.id].length)
  /\ ~probe.returned

(***************************************************************************)
(* Properties of the render properties (checked under Spec)                *)
(***************************************************************************)
\* the length is a dotted duration (1.5, 0.75, 0.375 or 3 quarters)
IsDotted(length) ==
  \E d \in { 3 * (One \div 2), 3 * (One \div 4), 3 * (One \div 8), 3 * One } : Near(length, d)

\* the lines of the largest base not above the length: one line for each of
\* the quarter, the eighth, the sixteenth and the thirty-second that the
\* length falls short of
BaseLines(length) ==
  Cardinality({ base \in { One, One \div 2, One \div 4, One \div 8 } : length < base - Eps })

\* the final blocks whose length is not a dotted duration
UndottedBlocks ==
  { i \in 1..Len(jianpuBlockMap) : ~IsDotted(jianpuBlockMap[i].value.length) }

ContinuesTie(block) ==
  Len(block.notes) = 1 /\ arena[block.notes[1]].tiedFrom # 0

DottedBlocks ==
  { i \in 1..Len(jianpuBlockMap) : IsDotted(jianpuBlockMap[i].value.length) }

\* the lines a reader of the block draws: none when durationLines is unset
LinesDrawn(block) == IF block.durationLines = Undefined THEN 0 ELSE block.durationLines

\* the lines of the undotted base of a dotted length
DottedBaseLines(length) ==
  IF Near(length, 3 * (One \div 4)) THEN 1
  ELSE IF Near(length, 3 * (One \div 8)) THEN 2
  ELSE 0

TheTimeSignature == jianpuInfo.timeSignatures[1]

BeatLength == (4 * One) \div TheTimeSignature.denominator

\* a multiple of the step lies strictly inside the span [start, start +
\* length), more than 1e-6 away from both ends
BoundaryInside(step, start, length) ==
  ((start + Eps) \div step + 1) * step < start + length - Eps

\* no beat and no measure end strictly inside the span of a final block
NoBoundaryInBlocks ==
  \A i \in 1..Len(jianpuBlockMap) :
    LET block == jianpuBlockMap[i].value
    IN /\ ~BoundaryInside(BeatLength, block.start, block.length)
       /\ ~BoundaryInside(getMeasureLength(TheTimeSignature), block.start, block.length)

\* no note of a final block sounds across a bar line: where the input note
\* crosses one, the note ends there and a tied fragment goes on
NoBarLineInNotes ==
  \A id \in NotesInMap :
    ~BoundaryInside(getMeasureLength(TheTimeSignature), arena[id].start, arena[id].length)

\* C24: after Pass 2 no final block has a beat or a measure end strictly
\* inside its span, beats and measures being those of the time signature at
\* the block's start, and a note that crosses a bar line is cut at the bar
\* line and continued by a tied fragment
C24_CutAtBoundaries ==
  Done => NoBoundaryInBlocks /\ NoBarLineInNotes

(***************************************************************************)
(* Properties of addNote (checked under SplitSpec)                         *)
(***************************************************************************)
\* the notes of the block with the pitch
SamePitch(ar, block, pitch) ==
  { j \in 1..Len(block.notes) : ar[block.notes[j]].pitch = pitch }

\* the block holds at most one note per pitch, its length is the least
\* length of its notes, and its notes start where it starts
WellFormedBlock(ar, block) ==
  /\ \A j \in 1..Len(block.notes) :
       /\ Cardinality(SamePitch(ar, block, ar[block.notes[j]].pitch)) = 1
       /\ Near(ar[block.notes[j]].start, block.start)
       /\ ar[block.notes[j]].length >= block.length - Eps
  /\ block.notes # <<>> =>
       \E j \in 1..Len(block.notes) : Near(ar[block.notes[j]].length, block.length)

\* the blocks with notes that addNote has built so far in a build
BlocksInBuild ==
  { jianpuBlockMap[i].value : i \in 1..Len(jianpuBlockMap) }
    \cup { blockProcessingQueue[i] : i \in 1..Len(blockProcessingQueue) }
    \cup (IF pc = "pass1" THEN { rawBlocks[i].value : i \in 1..Len(rawBlocks) } ELSE {})

\* at the end of a build, every note that was created at the start of a
\* final block has in that block a note of its pitch that is not longer
ShortestKept ==
  \A i \in 1..Len(jianpuBlockMap), id \in 1..Len(arena) :
    LET block == jianpuBlockMap[i].value
    IN (block.notes # <<>> /\ Near(arena[id].start, block.start)) =>
         \E j \in SamePitch(arena, block, arena[id].pitch) :
           arena[block.notes[j]].length <= arena[id].length

\* what a call of addNote on a block of the built model did: the note is
\* refused (false, the notes unchanged) when it starts elsewhere or when the block
\* has a note of its pitch that is not longer; otherwise the block holds it,
\* in the place of the longer note of its pitch when there was one
OfferedNoteKept ==
  LET before == probe.block
      after == jianpuBlockMap[probe.index].value
      offered == arena[probe.id]
      same == SamePitch(probe.arena, before, offered.pitch)
      refused == /\ before.notes # <<>>
                 /\ \/ ~Near(offered.start, before.start)
                    \/ \E j \in same : probe.arena[before.notes[j]].length <= offered.length
  IN /\ probe.returned = ~refused
     /\ refused => (after.notes = before.notes /\ after.start = before.start)
     /\ ~refused =>
          /\ \E j \in 1..Len(after.notes) : after.notes[j] = probe.id
          /\ Len(after.notes) = Len(before.notes) + (IF same = {} THEN 1 ELSE 0)
          /\ \A j \in 1..Len(before.notes) :
               j \notin same => after.notes[j] = before.notes[j]
     /\ WellFormedBlock(arena, after)

\* C25: after any sequence of addNote calls on a block, in Pass 1, through
\* mergeToMap or directly, the block holds at most one note per pitch, the
\* shortest of the notes of that pitch offered (an equal or longer duplicate
\* is ignored and addNote returns false), the block's length is the least
\* length of its notes, and every note of the block starts at the block's
\* start
C25_AddNote ==
  /\ probe = NoProbe => \A block \in BlocksInBuild : WellFormedBlock(arena, block)
  /\ (probe = NoProbe /\ Done) => ShortestKept
  /\ probe.stage = "added" => OfferedNoteKept

\* a shorter note of a pitch the block holds, offered to a block of two
\* notes: it takes the place of the longer one and the block gets shorter
C25_Witness ==
  /\ probe.stage = "added"
  /\ probe.returned
  /\ Len(probe.block.notes) = 2
  /\ Len(jianpuBlockMap[probe.index].value.notes) = 2
  /\ jianpuBlockMap[probe.index].value.notes # probe.block.notes
  /\ jianpuBlockMap[probe.index].value.length < probe.block.length

(***************************************************************************)
(* Properties of the tie links                                             *)
(***************************************************************************)
\* the notes held by the blocks of the build
HeldNotes ==
  { block.notes[j] : <<block, j>> \in
      UNION { { <<b, k>> : k \in 1..Len(b.notes) } : b \in BlocksInBuild } }

\* the links of the held notes answer each other
LinksAnswer ==
  \A n \in HeldNotes :
    /\ arena[n].tiedTo # 0 => arena[arena[n].tiedTo].tiedFrom = n
    /\ arena[n].tiedFrom # 0 => arena[arena[n].tiedFrom].tiedTo = n

\* no note is the successor of two held notes
OneSuccessorEach ==
  \A n, m \in HeldNotes :
    (n # m /\ arena[n].tiedTo # 0) => arena[n].tiedTo # arena[m].tiedTo

\* a successor has the pitch of its predecessor and starts where it ends
SuccessorFollows ==
  \A n \in HeldNotes :
    arena[n].tiedTo # 0 =>
      /\ arena[arena[n].tiedTo].pitch = arena[n].pitch
      /\ Near(arena[arena[n].tiedTo].start, arena[n].start + arena[n].length)

\* C26: in every state of a build the tie links form simple chains: the
\* links answer each other, no note is the successor of two notes, and a
\* successor has the pitch of its predecessor and starts where it ends
C26_SimpleChains ==
  probe = NoProbe => (LinksAnswer /\ OneSuccessorEach /\ SuccessorFollows)

(***************************************************************************)
(* Properties of the continuation dash (checked under DashSpec)            *)
(***************************************************************************)
\* the beat unit of the dash rule: 4/denominator quarters, at least one
BeatUnit == Max(BeatLength, One)

\* the time is a bar line (within 1e-6)
StartsMeasure(t) ==
  \E k \in 0..(t \div getMeasureLength(TheTimeSignature) + 1) :
    Near(t, k * getMeasureLength(TheTimeSignature))

\* the measure the time lies in, a time within 1e-6 before a bar line
\* counting for the measure that begins there
MeasureOf(t) == (t + Eps) \div getMeasureLength(TheTimeSignature)

\* the conditions of the continuation dash, as stated
DashConditions(block) ==
  /\ Len(block.notes) = 1
  /\ ~StartsMeasure(block.start)
  /\ LET note == arena[block.notes[1]]
     IN /\ note.tiedFrom # 0
        /\ arena[note.tiedFrom].pitch = note.pitch
        /\ Near(arena[note.tiedFrom].length, BeatUnit)
        /\ note.length >= One
        /\ note.tiedTo # 0 =>
             /\ MeasureOf(arena[note.tiedTo].start) = MeasureOf(block.start)
             /\ arena[note.tiedTo].length >= One

\* C27: the continuation dash is set on a final block when and only when the
\* block holds exactly one note, does not start a measure, the note is tied
\* from a predecessor of the same pitch whose length is one beat unit
\* max(4/denominator, 1), the note is at least a quarter long and, if it is
\* tied forward, its successor starts in the same measure and is at least a
\* quarter long
C27_DashWhenAndOnlyWhen ==
  Done => \A i \in 1..Len(jianpuBlockMap) :
            (jianpuBlockMap[i].value.augmentationDash = "true")
              <=> DashConditions(jianpuBlockMap[i].value)

(***************************************************************************)
(* Properties of the rests of Pass 1 (checked under Spec)                  *)
(***************************************************************************)
\* Pass 1 has run: rawBlocks is what it built
Pass1Over == pc \in { "pass2", "done" }

SetMin(S) == CHOOSE x \in S : \A y \in S : x <= y

SetMax(S) == CHOOSE x \in S : \A y \in S : y <= x

\* the end of the span of the block that the first k notes build at the
\* start: the start plus the least length of those of them that start there
BlockEndAmong(k, start) ==
  start + SetMin({ jianpuInfo.notes[j].length :
                     j \in { i \in 1..k : jianpuInfo.notes[i].start = start } })

\* the furthest endpoint covered by the blocks of the first k notes, 0 when
\* there is none
CoveredEndpoint(k) ==
  SetMax({ 0 } \cup { BlockEndAmong(k, jianpuInfo.notes[j].start) : j \in 1..k })

\* the rests called for, as <<start, length>>: one before every note that
\* starts after the endpoint covered by the notes before it, and one after
\* the last note when notes end after the covered endpoint (the score end is
\* the furthest end of a note plus the buffer of 1e-6)
RestsCalledFor ==
  LET n == Len(jianpuInfo.notes)
  IN { << CoveredEndpoint(k - 1), jianpuInfo.notes[k].start - CoveredEndpoint(k - 1) >> :
         k \in { i \in 1..n : jianpuInfo.notes[i].start > CoveredEndpoint(i - 1) } }
       \cup (IF MaxNoteEnd(jianpuInfo.notes) > CoveredEndpoint(n)
               THEN { << CoveredEndpoint(n), lastQ - CoveredEndpoint(n) >> }
               ELSE {})

\* the rests Pass 1 created
RestsCreated ==
  { << rawBlocks[i].value.start, rawBlocks[i].value.length >> :
      i \in { j \in 1..Len(rawBlocks) : rawBlocks[j].value.notes = <<>> } }

\* no rest begins while an earlier block's span is running
NoRestOverBlock ==
  \A i, j \in 1..Len(rawBlocks) :
    (rawBlocks[i].value.notes = <<>> /\ rawBlocks[j].value.start < rawBlocks[i].value.start)
      => rawBlocks[j].value.start + rawBlocks[j].value.length
           <= rawBlocks[i].value.start + Eps

\* C28: Pass 1 creates rests exactly for uncovered time: a rest from the
\* covered endpoint to the start of every note that starts after it, a
\* trailing rest from the covered endpoint to the score end when the score
\* goes on beyond it, no other rest, and no rest over a time at which an
\* earlier block's span is still running
C28_RestsForUncoveredTime ==
  Pass1Over => (RestsCreated = RestsCalledFor /\ NoRestOverBlock)

(***************************************************************************)
(* Properties of the order of the notes (checked under PermuteSpec)        *)
(***************************************************************************)
\* a note of a build as a reader of the result sees it, its ties given by
\* the start of the note tied to (Undefined: none)
NoteSeen(ar, id) ==
  [pitch |-> ar[id].pitch, start |-> ar[id].start, length |-> ar[id].length,
   jianpuNumber |-> ar[id].jianpuNumber, octaveDot |-> ar[id].octaveDot,
   accidental |-> ar[id].accidental,
   tiedTo |-> IF ar[id].tiedTo = 0 THEN Undefined ELSE ar[ar[id].tiedTo].start,
   tiedFrom |-> IF ar[id].tiedFrom = 0 THEN Undefined ELSE ar[ar[id].tiedFrom].start]

\* the blocks of a build: starts, lengths, notes with their tie links, and
\* render properties
BlocksSeen(map, ar) ==
  { [start |-> map[i].value.start, length |-> map[i].value.length,
     notes |-> { NoteSeen(ar, map[i].value.notes[j]) : j \in 1..Len(map[i].value.notes) },
     durationLines |-> map[i].value.durationLines,
     augmentationDots |-> map[i].value.augmentationDots,
     augmentationDash |-> map[i].value.augmentationDash] : i \in 1..Len(map) }

\* the second build is over, and the stored sum lastQ fell on the same side
\* in both builds
BothBuilt ==
  /\ Done
  /\ Len(calls) = 2
  /\ calls[1].roundoff = lastQ - MaxNoteEnd(jianpuInfo.notes)

\* C29: the result of a build does not depend on the order of the notes in
\* the input collection: two builds from the same notes in different orders
\* leave the same block starts, lengths, notes, tie links and render
\* properties
C29_OrderIndependent ==
  BothBuilt =>
    BlocksSeen(calls[1].jianpuBlockMap, calls[1].arena) = BlocksSeen(jianpuBlockMap, arena)

(***************************************************************************)
(* Properties of the lengths of notes and blocks (checked under Spec)      *)
(***************************************************************************)
\* the length of the final block that holds the note
HolderLength(id) ==
  LET i == CHOOSE k \in 1..Len(jianpuBlockMap) :
             \E j \in 1..Len(jianpuBlockMap[k].value.notes) :
               jianpuBlockMap[k].value.notes[j] = id
  IN jianpuBlockMap[i].value.length

\* every note of a final block is as long as the block (within 1e-6)
NotesFillBlocks ==
  \A id \in NotesInMap : Near(arena[id].length, HolderLength(id))

\* the summed length of the blocks that hold the notes reached from a note
\* of the final map by following tiedTo
RECURSIVE HolderChainLength(_, _)
HolderChainLength(id, fuel) ==
  IF id = 0 \/ fuel = 0 \/ id \notin NotesInMap THEN 0
  ELSE HolderLength(id) + HolderChainLength(arena[id].tiedTo, fuel - 1)

\* the blocks that hold the tie chain of an input note add up to its length
BlocksAddUp ==
  \A id \in NotesInMap :
    arena[id].tiedFrom = 0 =>
      Near(HolderChainLength(id, Len(arena)), jianpuInfo.notes[arena[id].src].length)

\* C30: in the final collection every note's length is the length of the
\* block that holds it, so the lengths of the blocks that hold the tie chain
\* of an input note add up to the note's duration, also in a chord whose
\* notes have different lengths
C30_DurationFidelity ==
  Done => (NotesFillBlocks /\ BlocksAddUp)

====
